---------------------------- MODULE Spec2Model ----------------------------
(***************************************************************************)
(* A model of the rename agent's core: the pattern engine                 *)
(* (models/document.py), the pattern store (patterns/pattern_store.py,    *)
(* patterns/default_patterns.py) and the rename executor                  *)
(* (tools/file_renamer.py).                                               *)
(*                                                                         *)
(* Python strings are TLA+ strings; TLC evaluates Len, Head, Tail, SubSeq *)
(* and \o on them, so every string function below works character by     *)
(* character, as the Python code and its regular expressions do.          *)
(***************************************************************************)
EXTENDS Integers, Sequences, FiniteSets, TLC

VARIABLES
    patterns,     \* PatternStore._patterns: the rules, in dict insertion order
    history,      \* PatternStore._history
    diskPatterns, \* patterns.json: whether it exists, is JSON, is a JSON object, and
                  \* the list of rule dicts under its key
    diskHistory,  \* history.json: the same, with the list of history entries
    files,        \* the filesystem: the paths of the regular files
    dirs,         \* the filesystem: the paths of the directories
    loop,         \* SpecUnique: where a call of get_unique_path stands
    clock,        \* datetime.now(), as a count of the calls made so far
    nextUid,      \* how many uuid4 identifiers add_pattern has drawn
    last,         \* the last call: its name, arguments, result and the state before it
    sIn,          \* SpecSanitize / SpecRender: the input string (name or pattern)
    sDoc,         \* SpecRender: the input DocumentInfo
    sOut          \* SpecSanitize / SpecRender: the call's result once made

vars == <<patterns, history, diskPatterns, diskHistory, files, dirs, loop, clock,
          nextUid, last, sIn, sDoc, sOut>>

storeVars == <<patterns, history, diskPatterns, diskHistory, clock, nextUid>>
fsVars == <<files, dirs>>
pureVars == <<sIn, sDoc, sOut>>

(***************************************************************************)
(* Strings.                                                                *)
(***************************************************************************)

\* s[i] of Python, 1-based here
CharAt(s, i) == SubSeq(s, i, i)

\* str.isspace / the regular expressions' \s, over the characters the inputs use
IsSpace(c) == c \in {" ", "\t"}

\* the length of the longest prefix of s[i..] made of whitespace
RECURSIVE SpaceRun(_, _)
SpaceRun(s, i) ==
    IF i <= Len(s) /\ IsSpace(CharAt(s, i)) THEN 1 + SpaceRun(s, i + 1) ELSE 0

\* the length of the longest prefix of s[i..] made of the character c
RECURSIVE CharRun(_, _, _)
CharRun(s, c, i) ==
    IF i <= Len(s) /\ CharAt(s, i) = c THEN 1 + CharRun(s, c, i + 1) ELSE 0

\* s[i:] of Python for 1-based i
Drop(s, i) == SubSeq(s, i, Len(s))

\* whether s[i..] starts with t
StartsAt(s, t, i) == i + Len(t) - 1 <= Len(s) /\ SubSeq(s, i, i + Len(t) - 1) = t

\* Python's "t in s"
RECURSIVE ContainsFrom(_, _, _)
ContainsFrom(s, t, i) ==
    IF i + Len(t) - 1 > Len(s) THEN FALSE
    ELSE IF StartsAt(s, t, i) THEN TRUE
    ELSE ContainsFrom(s, t, i + 1)

Contains(s, t) == ContainsFrom(s, t, 1)

\* str.replace(old, new) for a non-empty old: every non-overlapping occurrence, left to right
RECURSIVE StrReplace(_, _, _)
StrReplace(s, old, new) ==
    IF s = "" THEN ""
    ELSE IF StartsAt(s, old, 1) THEN new \o StrReplace(Drop(s, Len(old) + 1), old, new)
    ELSE Head(s) \o StrReplace(Tail(s), old, new)

\* str.strip(): leading and trailing whitespace removed
RECURSIVE LStripSpace(_)
LStripSpace(s) == IF s # "" /\ IsSpace(Head(s)) THEN LStripSpace(Tail(s)) ELSE s

RECURSIVE RStripSpace(_)
RStripSpace(s) ==
    IF s # "" /\ IsSpace(CharAt(s, Len(s))) THEN RStripSpace(SubSeq(s, 1, Len(s) - 1)) ELSE s

Strip(s) == RStripSpace(LStripSpace(s))

\* str.strip('.'): leading and trailing dots removed
RECURSIVE LStripDot(_)
LStripDot(s) == IF s # "" /\ Head(s) = "." THEN LStripDot(Tail(s)) ELSE s

RECURSIVE RStripDot(_)
RStripDot(s) ==
    IF s # "" /\ CharAt(s, Len(s)) = "." THEN RStripDot(SubSeq(s, 1, Len(s) - 1)) ELSE s

StripDots(s) == RStripDot(LStripDot(s))

\* re.sub(r'\s+', ' ', s)
RECURSIVE CollapseSpaces(_)
CollapseSpaces(s) ==
    IF s = "" THEN ""
    ELSE IF IsSpace(Head(s)) THEN " " \o CollapseSpaces(Drop(s, SpaceRun(s, 1) + 1))
    ELSE Head(s) \o CollapseSpaces(Tail(s))

\* re.sub(r'-+', '-', s)
RECURSIVE CollapseDashes(_)
CollapseDashes(s) ==
    IF s = "" THEN ""
    ELSE IF Head(s) = "-" THEN "-" \o CollapseDashes(Drop(s, CharRun(s, "-", 1) + 1))
    ELSE Head(s) \o CollapseDashes(Tail(s))

\* the length of the match of \s*-\s* at the start of s, 0 when there is none
DashMatch(s) ==
    LET a == SpaceRun(s, 1)
    IN  IF a + 1 <= Len(s) /\ CharAt(s, a + 1) = "-"
        THEN a + 1 + SpaceRun(s, a + 2)
        ELSE 0

\* re.sub(r'\s*-\s*', ' - ', s)
RECURSIVE SpaceDashes(_)
SpaceDashes(s) ==
    IF s = "" THEN ""
    ELSE IF DashMatch(s) > 0 THEN " - " \o SpaceDashes(Drop(s, DashMatch(s) + 1))
    ELSE Head(s) \o SpaceDashes(Tail(s))

(***************************************************************************)
(* tools/file_renamer.py: sanitize_filename                                *)
(***************************************************************************)

\* invalid_chars = '<>:"/\\|?*'
InvalidChars == {"<", ">", ":", "\"", "/", "\\", "|", "?", "*"}

\* the buggy twin of sanitize_filename's replacement loop: the colon is left in
RECURSIVE ReplaceInvalidNoColon(_)
ReplaceInvalidNoColon(s) ==
    IF s = "" THEN ""
    ELSE (IF Head(s) \in InvalidChars \ {":"} THEN "-" ELSE Head(s))
         \o ReplaceInvalidNoColon(Tail(s))

\* for char in invalid_chars: result = result.replace(char, '-')
RECURSIVE ReplaceInvalid(_)
ReplaceInvalid(s) ==
    IF s = "" THEN ""
    ELSE (IF Head(s) \in InvalidChars THEN "-" ELSE Head(s)) \o ReplaceInvalid(Tail(s))

sanitize_filename(name) ==
    LET replaced == ReplaceInvalid(name)
        stripped == StripDots(Strip(replaced))
        cleaned  == SpaceDashes(CollapseDashes(CollapseSpaces(stripped)))
    IN  IF cleaned = "" THEN "unnamed" ELSE cleaned


(***************************************************************************)
(* models/document.py: DocumentType                                        *)
(***************************************************************************)

\* the enumeration's members, in declaration order, and their values
DocumentTypeValues ==
    <<"receipt", "bill", "tax_document", "bank_statement", "invoice", "contract",
      "medical", "insurance", "investment", "payslip", "identity", "correspondence",
      "manual", "photo", "general">>

DocumentTypeNames ==
    <<"RECEIPT", "BILL", "TAX_DOCUMENT", "BANK_STATEMENT", "INVOICE", "CONTRACT",
      "MEDICAL", "INSURANCE", "INVESTMENT", "PAYSLIP", "IDENTITY", "CORRESPONDENCE",
      "MANUAL", "PHOTO", "GENERAL">>

\* the members: a rule or a document holds a member, a saved dict holds its value
DocumentType == {DocumentTypeNames[i] : i \in 1..Len(DocumentTypeNames)}

\* DocumentType.value
TypeValue(t) ==
    DocumentTypeValues[CHOOSE i \in 1..Len(DocumentTypeNames) : DocumentTypeNames[i] = t]

UpperCase == "ABCDEFGHIJKLMNOPQRSTUVWXYZ"
LowerCase == "abcdefghijklmnopqrstuvwxyz"

\* the lower-case letter of each upper-case letter
LowerOf ==
    [c \in {CharAt(UpperCase, i) : i \in 1..Len(UpperCase)} |->
        CharAt(LowerCase, CHOOSE i \in 1..Len(UpperCase) : CharAt(UpperCase, i) = c)]

\* str.lower() of one character
LowerChar(c) == IF c \in DOMAIN LowerOf THEN LowerOf[c] ELSE c

\* str.lower()
RECURSIVE Lower(_)
Lower(s) == IF s = "" THEN "" ELSE LowerChar(Head(s)) \o Lower(Tail(s))

\* cls(v): the member of this value, GENERAL on ValueError
MemberOfValue(v) ==
    IF \E i \in 1..Len(DocumentTypeValues) : DocumentTypeValues[i] = v
    THEN DocumentTypeNames[CHOOSE i \in 1..Len(DocumentTypeValues) : DocumentTypeValues[i] = v]
    ELSE "GENERAL"

\* DocumentType.from_string: cls(value.lower().replace(" ", "_"))
from_string(value) == MemberOfValue(StrReplace(Lower(value), " ", "_"))

(***************************************************************************)
(* models/document.py: DocumentInfo                                        *)
(***************************************************************************)

\* a DocumentInfo with no extracted field.  An optional field that is absent
\* (None) is the empty string: every use of these fields tests truthiness
\* only, and None and "" are both false.
NoDoc ==
    [file_path |-> "", original_name |-> "", document_type |-> "GENERAL",
     date |-> "", year |-> "", month |-> "", merchant |-> "", amount |-> "",
     account_number |-> "", form_type |-> "", institution |-> "", description |-> ""]

IsDigit(c) == c \in {"0", "1", "2", "3", "4", "5", "6", "7", "8", "9"}

DigitVal(c) == CHOOSE n \in 0..9 : CharAt("0123456789", n + 1) = c

RECURSIVE AllDigits(_)
AllDigits(s) == s = "" \/ (IsDigit(Head(s)) /\ AllDigits(Tail(s)))

RECURSIVE IntOf(_)
IntOf(s) == IF s = "" THEN 0 ELSE 10 * IntOf(SubSeq(s, 1, Len(s) - 1)) + DigitVal(CharAt(s, Len(s)))

\* the position of the first occurrence of c in s at or after i, 0 when there is none
RECURSIVE IndexFrom(_, _, _)
IndexFrom(s, c, i) ==
    IF i > Len(s) THEN 0 ELSE IF CharAt(s, i) = c THEN i ELSE IndexFrom(s, c, i + 1)

IsLeap(y) == (y % 4 = 0 /\ y % 100 # 0) \/ y % 400 = 0

DaysIn(y, m) ==
    IF m = 2 THEN (IF IsLeap(y) THEN 29 ELSE 28)
    ELSE IF m \in {4, 6, 9, 11} THEN 30 ELSE 31

\* two digits, zero padded: strftime's %m and %d
Pad2(n) == CharAt("0123456789", (n \div 10) + 1) \o CharAt("0123456789", (n % 10) + 1)

\* datetime.strptime(date, "%Y-%m-%d"): %Y is four digits, %m and %d one or two
\* (%d also a space and one digit), and the day must exist in the month.
\* ok is FALSE where strptime raises ValueError.
strptime(date) ==
    LET i == IndexFrom(date, "-", 1)
        j == IF i = 0 THEN 0 ELSE IndexFrom(date, "-", i + 1)
        ys == SubSeq(date, 1, i - 1)
        ms == SubSeq(date, i + 1, j - 1)
        dr == Drop(date, j + 1)
        ds == IF Len(dr) = 2 /\ Head(dr) = " " THEN Tail(dr) ELSE dr
        shaped == /\ i = 5 /\ j > 0
                  /\ AllDigits(ys)
                  /\ Len(ms) \in {1, 2} /\ AllDigits(ms)
                  /\ Len(ds) \in {1, 2} /\ AllDigits(ds)
    IN  IF shaped /\ IntOf(ys) >= 1 /\ IntOf(ms) \in 1..12
               /\ IntOf(ds) \in 1..DaysIn(IntOf(ys), IntOf(ms))
        THEN [ok |-> TRUE, Y |-> ys, m |-> Pad2(IntOf(ms)), d |-> Pad2(IntOf(ds))]
        ELSE [ok |-> FALSE, Y |-> "", m |-> "", d |-> ""]

\* values[token] = value on a dict kept as the sequence of its items in insertion
\* order: an existing key keeps its place, a new key goes last
RECURSIVE SetItem(_, _, _)
SetItem(items, token, value) ==
    IF items = <<>> THEN <<<<token, value>>>>
    ELSE IF Head(items)[1] = token THEN <<<<token, value>>>> \o Tail(items)
    ELSE <<Head(items)>> \o SetItem(Tail(items), token, value)

\* the buggy twin of the year branch's second assignment: Date:YYYY set by the
\* date is kept
SetItemIfAbsent(items, token, value) ==
    IF \E k \in 1..Len(items) : items[k][1] = token THEN items
    ELSE SetItem(items, token, value)

\* values["Date:YYYY"] = self.year
SetYearToken(items, year) == SetItem(items, "Date:YYYY", year)

\* lines 95-105: the tokens of the date field
DateTokens(doc) ==
    IF doc.date = "" THEN <<>>
    ELSE <<<<"Date", doc.date>>, <<"Date:YYYY-MM-DD", doc.date>>>>
         \o (IF strptime(doc.date).ok
             THEN <<<<"Date:YYYY", strptime(doc.date).Y>>,
                    <<"Date:YYYY-MM", strptime(doc.date).Y \o "-" \o strptime(doc.date).m>>,
                    <<"Date:MM-DD", strptime(doc.date).m \o "-" \o strptime(doc.date).d>>>>
             ELSE <<>>)

\* lines 107-109: the year field sets Year and Date:YYYY
YearTokens(items, doc) ==
    IF doc.year = "" THEN items
    ELSE SetYearToken(SetItem(items, "Year", doc.year), doc.year)

\* lines 111-112
MonthTokens(doc) ==
    IF doc.month = "" THEN <<>> ELSE <<<<"Month", doc.month>>>>

\* lines 114-116
MerchantTokens(doc) ==
    IF doc.merchant = "" THEN <<>>
    ELSE <<<<"Merchant", doc.merchant>>, <<"Vendor", doc.merchant>>>>

\* lines 118-119
AmountTokens(doc) ==
    IF doc.amount = "" THEN <<>> ELSE <<<<"Amount", doc.amount>>>>

\* lines 121-123: the last four characters, or all of a shorter number
AccountTokens(doc) ==
    IF doc.account_number = "" THEN <<>>
    ELSE <<<<"Account Number", doc.account_number>>,
           <<"Last 4 Digits",
             IF Len(doc.account_number) >= 4
             THEN SubSeq(doc.account_number, Len(doc.account_number) - 3,
                         Len(doc.account_number))
             ELSE doc.account_number>>>>

\* lines 125-127
FormTokens(doc) ==
    IF doc.form_type = "" THEN <<>>
    ELSE <<<<"Form Type", doc.form_type>>, <<"Form", doc.form_type>>>>

\* lines 129-132
InstitutionTokens(doc) ==
    IF doc.institution = "" THEN <<>>
    ELSE <<<<"Institution", doc.institution>>, <<"Bank Name", doc.institution>>,
           <<"Service Provider", doc.institution>>>>

\* lines 134-138
DescriptionTokens(doc) ==
    IF doc.description = "" THEN <<>>
    ELSE <<<<"Description", doc.description>>, <<"Title", doc.description>>,
           <<"Subject", doc.description>>, <<"Items", doc.description>>>>

\* DocumentInfo.get_token_values: the dict's items in insertion order.  Only
\* Date:YYYY is assigned twice; every other assignment adds a new key at the end.
get_token_values(doc) ==
    YearTokens(DateTokens(doc), doc)
        \o MonthTokens(doc) \o MerchantTokens(doc) \o AmountTokens(doc)
        \o AccountTokens(doc) \o FormTokens(doc) \o InstitutionTokens(doc)
        \o DescriptionTokens(doc)

\* values.get(token), "" when the token has no value
RECURSIVE TokenValue(_, _)
TokenValue(items, token) ==
    IF items = <<>> THEN ""
    ELSE IF Head(items)[1] = token THEN Head(items)[2]
    ELSE TokenValue(Tail(items), token)

HasToken(items, token) == \E k \in 1..Len(items) : items[k][1] = token

(***************************************************************************)
(* models/document.py: PatternRule.apply_to_document                       *)
(***************************************************************************)

\* for token, value in token_values.items(): result = result.replace("{token}", value)
RECURSIVE ReplaceTokens(_, _)
ReplaceTokens(s, items) ==
    IF items = <<>> THEN s
    ELSE ReplaceTokens(StrReplace(s, "{" \o Head(items)[1] \o "}", Head(items)[2]),
                       Tail(items))

\* the length of the match of \{[^}]+\} at the start of s, 0 when there is none
PlaceholderMatch(s) ==
    LET j == IndexFrom(s, "}", 2)
    IN  IF s # "" /\ Head(s) = "{" /\ j > 2 THEN j ELSE 0

\* the buggy twin of StripPlaceholders: re.sub(..., count=1), only the first goes
RECURSIVE StripFirstPlaceholder(_)
StripFirstPlaceholder(s) ==
    IF s = "" THEN ""
    ELSE IF PlaceholderMatch(s) > 0 THEN Drop(s, PlaceholderMatch(s) + 1)
    ELSE Head(s) \o StripFirstPlaceholder(Tail(s))

\* re.sub(r'\{[^}]+\}', '', s)
RECURSIVE StripPlaceholders(_)
StripPlaceholders(s) ==
    IF s = "" THEN ""
    ELSE IF PlaceholderMatch(s) > 0 THEN StripPlaceholders(Drop(s, PlaceholderMatch(s) + 1))
    ELSE Head(s) \o StripPlaceholders(Tail(s))

\* the length of the match of \s*-\s*-\s* at the start of s, 0 when there is none
DoubleDashMatch(s) ==
    LET a == SpaceRun(s, 1)
        b == SpaceRun(s, a + 2)
    IN  IF /\ a + 1 <= Len(s) /\ CharAt(s, a + 1) = "-"
           /\ a + b + 2 <= Len(s) /\ CharAt(s, a + b + 2) = "-"
        THEN a + b + 2 + SpaceRun(s, a + b + 3)
        ELSE 0

\* re.sub(r'\s*-\s*-\s*', ' - ', s): one pass, left to right
RECURSIVE CollapseDoubleDashes(_)
CollapseDoubleDashes(s) ==
    IF s = "" THEN ""
    ELSE IF DoubleDashMatch(s) > 0
         THEN " - " \o CollapseDoubleDashes(Drop(s, DoubleDashMatch(s) + 1))
    ELSE Head(s) \o CollapseDoubleDashes(Tail(s))

\* re.sub(r'^\s*-\s*', '', s)
StripLeadingDash(s) == IF DashMatch(s) > 0 THEN Drop(s, DashMatch(s) + 1) ELSE s

\* re.sub(r'\s*-\s*$', '', s): the leftmost match that reaches the end of s
RECURSIVE StripTrailingDash(_)
StripTrailingDash(s) ==
    IF s = "" THEN ""
    ELSE IF DashMatch(s) = Len(s) THEN ""
    ELSE Head(s) \o StripTrailingDash(Tail(s))

\* PatternRule.apply_to_document(doc) of a rule whose template is pattern
apply_to_document(pattern, doc) ==
    LET replaced == ReplaceTokens(pattern, get_token_values(doc))
        stripped == StripPlaceholders(replaced)
        spaced   == CollapseSpaces(stripped)
        dashed   == CollapseDoubleDashes(spaced)
        trimmed  == StripTrailingDash(StripLeadingDash(dashed))
    IN  Strip(trimmed)

(***************************************************************************)
(* patterns/default_patterns.py: DEFAULT_PATTERNS, in the dict's order     *)
(***************************************************************************)

DEFAULT_PATTERNS ==
    <<
      [id |-> "receipt_default", document_type |-> "RECEIPT",
       pattern |-> "{Date:YYYY-MM-DD} - {Merchant} - {Amount}",
       name |-> "Standard Receipt", description |-> "Date, merchant name, and amount",
       match_keywords |-> <<>>, match_institutions |-> <<>>, priority |-> 0],
      [id |-> "receipt_detailed", document_type |-> "RECEIPT",
       pattern |-> "{Date:YYYY-MM-DD} - {Merchant} - {Items} - {Amount}",
       name |-> "Detailed Receipt", description |-> "Includes item description",
       match_keywords |-> <<>>, match_institutions |-> <<>>, priority |-> -1],
      [id |-> "bill_default", document_type |-> "BILL",
       pattern |-> "{Date:YYYY-MM} - {Service Provider} - {Amount}",
       name |-> "Standard Bill", description |-> "Month, provider, and amount",
       match_keywords |-> <<>>, match_institutions |-> <<>>, priority |-> 0],
      [id |-> "bill_with_account", document_type |-> "BILL",
       pattern |-> "{Date:YYYY-MM} - {Service Provider} - {Account Number}",
       name |-> "Bill with Account", description |-> "Includes account number",
       match_keywords |-> <<>>, match_institutions |-> <<>>, priority |-> -1],
      [id |-> "tax_k1", document_type |-> "TAX_DOCUMENT",
       pattern |-> "{Year} - K-1 - {Institution}",
       name |-> "K-1 Form", description |-> "K-1 partnership/S-corp tax forms",
       match_keywords |-> <<"k-1", "k1", "schedule k">>, match_institutions |-> <<>>, priority |-> 10],
      [id |-> "tax_1099", document_type |-> "TAX_DOCUMENT",
       pattern |-> "{Year} - 1099 - {Institution}",
       name |-> "1099 Form", description |-> "1099 tax forms",
       match_keywords |-> <<"1099">>, match_institutions |-> <<>>, priority |-> 10],
      [id |-> "tax_w2", document_type |-> "TAX_DOCUMENT",
       pattern |-> "{Year} - W-2 - {Institution}",
       name |-> "W-2 Form", description |-> "W-2 wage statements",
       match_keywords |-> <<"w-2", "w2">>, match_institutions |-> <<>>, priority |-> 10],
      [id |-> "tax_default", document_type |-> "TAX_DOCUMENT",
       pattern |-> "{Year} - {Form Type} - {Institution}",
       name |-> "Standard Tax Document", description |-> "Generic tax document pattern",
       match_keywords |-> <<>>, match_institutions |-> <<>>, priority |-> 0],
      [id |-> "bank_default", document_type |-> "BANK_STATEMENT",
       pattern |-> "{Date:YYYY-MM} - {Bank Name} - Statement",
       name |-> "Monthly Statement", description |-> "Bank monthly statement",
       match_keywords |-> <<>>, match_institutions |-> <<>>, priority |-> 0],
      [id |-> "bank_with_account", document_type |-> "BANK_STATEMENT",
       pattern |-> "{Date:YYYY-MM} - {Bank Name} - {Last 4 Digits}",
       name |-> "Statement with Account", description |-> "Includes last 4 digits of account",
       match_keywords |-> <<>>, match_institutions |-> <<>>, priority |-> -1],
      [id |-> "invoice_default", document_type |-> "INVOICE",
       pattern |-> "{Date:YYYY-MM-DD} - Invoice - {Merchant} - {Amount}",
       name |-> "Standard Invoice", description |-> "Date, vendor, and amount",
       match_keywords |-> <<>>, match_institutions |-> <<>>, priority |-> 0],
      [id |-> "contract_default", document_type |-> "CONTRACT",
       pattern |-> "{Date:YYYY-MM-DD} - {Institution} - {Description}",
       name |-> "Standard Contract", description |-> "Date, party, and description",
       match_keywords |-> <<>>, match_institutions |-> <<>>, priority |-> 0],
      [id |-> "medical_default", document_type |-> "MEDICAL",
       pattern |-> "{Date:YYYY-MM-DD} - {Institution} - {Description}",
       name |-> "Standard Medical", description |-> "Date, provider, and description",
       match_keywords |-> <<>>, match_institutions |-> <<>>, priority |-> 0],
      [id |-> "medical_eob", document_type |-> "MEDICAL",
       pattern |-> "{Date:YYYY-MM-DD} - EOB - {Institution}",
       name |-> "Explanation of Benefits", description |-> "Insurance EOB documents",
       match_keywords |-> <<"eob", "explanation of benefits">>, match_institutions |-> <<>>, priority |-> 10],
      [id |-> "insurance_default", document_type |-> "INSURANCE",
       pattern |-> "{Date:YYYY} - {Institution} - {Description}",
       name |-> "Standard Insurance", description |-> "Year, insurer, and description",
       match_keywords |-> <<>>, match_institutions |-> <<>>, priority |-> 0],
      [id |-> "insurance_policy", document_type |-> "INSURANCE",
       pattern |-> "{Date:YYYY} - {Institution} - Policy - {Account Number}",
       name |-> "Insurance Policy", description |-> "Policy document with number",
       match_keywords |-> <<"policy">>, match_institutions |-> <<>>, priority |-> 5],
      [id |-> "investment_statement", document_type |-> "INVESTMENT",
       pattern |-> "{Date:YYYY-MM} - {Institution} - Statement",
       name |-> "Investment Statement", description |-> "Monthly/quarterly statement",
       match_keywords |-> <<>>, match_institutions |-> <<>>, priority |-> 0],
      [id |-> "investment_trade", document_type |-> "INVESTMENT",
       pattern |-> "{Date:YYYY-MM-DD} - {Institution} - {Description}",
       name |-> "Trade Confirmation", description |-> "Individual trade confirmations",
       match_keywords |-> <<"confirmation", "trade", "buy", "sell">>, match_institutions |-> <<>>, priority |-> 5],
      [id |-> "payslip_default", document_type |-> "PAYSLIP",
       pattern |-> "{Date:YYYY-MM-DD} - {Institution} - Pay Stub",
       name |-> "Standard Pay Stub", description |-> "Pay date and employer",
       match_keywords |-> <<>>, match_institutions |-> <<>>, priority |-> 0],
      [id |-> "identity_default", document_type |-> "IDENTITY",
       pattern |-> "{Description} - {Date:YYYY}",
       name |-> "Identity Document", description |-> "Document type and year",
       match_keywords |-> <<>>, match_institutions |-> <<>>, priority |-> 0],
      [id |-> "correspondence_default", document_type |-> "CORRESPONDENCE",
       pattern |-> "{Date:YYYY-MM-DD} - {Institution} - {Description}",
       name |-> "Standard Correspondence", description |-> "Date, sender, and subject",
       match_keywords |-> <<>>, match_institutions |-> <<>>, priority |-> 0],
      [id |-> "manual_default", document_type |-> "MANUAL",
       pattern |-> "{Institution} - {Description} - Manual",
       name |-> "Product Manual", description |-> "Brand and product name",
       match_keywords |-> <<>>, match_institutions |-> <<>>, priority |-> 0],
      [id |-> "photo_default", document_type |-> "PHOTO",
       pattern |-> "{Date:YYYY-MM-DD} - {Description}",
       name |-> "Standard Photo", description |-> "Date and description",
       match_keywords |-> <<>>, match_institutions |-> <<>>, priority |-> 0],
      [id |-> "general_default", document_type |-> "GENERAL",
       pattern |-> "{Date:YYYY-MM-DD} - {Description}",
       name |-> "General Document", description |-> "Date and description",
       match_keywords |-> <<>>, match_institutions |-> <<>>, priority |-> 0]
    >>

(***************************************************************************)
(* models/document.py: PatternRule                                         *)
(***************************************************************************)

\* last_used = None
NoTime == 0

\* PatternRule.to_dict: the enumeration member becomes its value
to_dict(rule) == [rule EXCEPT !.document_type = TypeValue(rule.document_type)]

\* PatternRule.from_dict: the value is parsed back into a member
from_dict(data) == [data EXCEPT !.document_type = from_string(data.document_type)]

\* " ".join(filter(None, [description, institution, merchant, form_type]))
RECURSIVE JoinNonEmpty(_)
JoinNonEmpty(parts) ==
    IF parts = <<>> THEN ""
    ELSE IF Head(parts) = "" THEN JoinNonEmpty(Tail(parts))
    ELSE IF JoinNonEmpty(Tail(parts)) = "" THEN Head(parts)
    ELSE Head(parts) \o " " \o JoinNonEmpty(Tail(parts))

\* lines 198-203: doc_text
DocText(doc) ==
    Lower(JoinNonEmpty(<<doc.description, doc.institution, doc.merchant, doc.form_type>>))

\* the buggy twin of KeywordHit: keyword.lower() is left out
KeywordHitExactCase(rule, doc) ==
    \E k \in 1..Len(rule.match_keywords) :
        Contains(DocText(doc), rule.match_keywords[k])

\* lines 205-207: some keyword, lowercased, is in doc_text
KeywordHit(rule, doc) ==
    \E k \in 1..Len(rule.match_keywords) :
        Contains(DocText(doc), Lower(rule.match_keywords[k]))

\* lines 209-211: some institution of the rule is in the document's institution
InstitutionHit(rule, doc) ==
    \E k \in 1..Len(rule.match_institutions) :
        /\ doc.institution # ""
        /\ Contains(Lower(doc.institution), Lower(rule.match_institutions[k]))

\* pattern.match_keywords or pattern.match_institutions
HasCriteria(rule) == rule.match_keywords # <<>> \/ rule.match_institutions # <<>>

\* PatternRule.matches_document
matches_document(rule, doc) ==
    IF rule.document_type # doc.document_type THEN FALSE
    ELSE KeywordHit(rule, doc) \/ InstitutionHit(rule, doc) \/ ~HasCriteria(rule)

(***************************************************************************)
(* patterns/pattern_store.py: PatternStore                                 *)
(*                                                                         *)
(* A store is the record of its four parts; an operation takes a store and *)
(* gives the store after it and what it returns.                           *)
(***************************************************************************)

\* history[-1000:], line 94
HistoryKeep == 1000

\* id in self._patterns
HasId(rules, id) == \E k \in 1..Len(rules) : rules[k].id = id

\* the position of the rule with this id, 0 when there is none
IndexOfId(rules, id) ==
    IF HasId(rules, id) THEN CHOOSE k \in 1..Len(rules) : rules[k].id = id ELSE 0

\* a list comprehension over the positions 1..n, as a list
ListOf(f) == <<>> \o f

\* del d[key] on the dict kept as a sequence
RemoveAt(seq, k) == SubSeq(seq, 1, k - 1) \o SubSeq(seq, k + 1, Len(seq))

\* self._patterns[rule.id] = rule: an existing key keeps its place
PutRule(rules, rule) ==
    IF HasId(rules, rule.id)
    THEN [rules EXCEPT ![IndexOfId(rules, rule.id)] = rule]
    ELSE Append(rules, rule)

\* lines 66-76: the rule made of a catalog entry
DefaultRule(entry, now) ==
    [id |-> entry.id, document_type |-> entry.document_type, pattern |-> entry.pattern,
     name |-> entry.name, description |-> entry.description,
     use_count |-> 0, last_used |-> NoTime, created_at |-> now,
     match_keywords |-> entry.match_keywords,
     match_institutions |-> entry.match_institutions,
     priority |-> entry.priority, is_custom |-> FALSE]

\* the rules of the catalog, in catalog order
DefaultRules(now) ==
    ListOf([k \in 1..Len(DEFAULT_PATTERNS) |-> DefaultRule(DEFAULT_PATTERNS[k], now)])

\* the buggy twin of ensure_defaults: the catalog rule replaces a rule of the same id
EnsureDefaultsOverwrite(rules, now) ==
    ListOf([k \in 1..Len(rules) |->
               IF HasId(DefaultRules(now), rules[k].id)
               THEN DefaultRules(now)[IndexOfId(DefaultRules(now), rules[k].id)]
               ELSE rules[k]])
        \o SelectSeq(DefaultRules(now), LAMBDA r : ~HasId(rules, r.id))

\* PatternStore._ensure_defaults: the catalog ids are distinct, so the loop appends,
\* in catalog order, the catalog rules whose id the store does not hold
ensure_defaults(rules, now) ==
    rules \o SelectSeq(DefaultRules(now), LAMBDA r : ~HasId(rules, r.id))

\* the positions where an id occurs for the first time
FirstOccurrences(dicts) ==
    SelectSeq(ListOf([k \in 1..Len(dicts) |-> k]),
              LAMBDA k : \A j \in 1..(k - 1) : dicts[j].id # dicts[k].id)

\* the position where the id at position k occurs for the last time
LastOccurrence(dicts, k) ==
    CHOOSE j \in k..Len(dicts) :
        /\ dicts[j].id = dicts[k].id
        /\ \A i \in (j + 1)..Len(dicts) : dicts[i].id # dicts[k].id

\* the rules at these positions, each with the value of its id's last occurrence
LoadedAt(dicts, firsts) ==
    ListOf([i \in 1..Len(firsts) |-> from_dict(dicts[LastOccurrence(dicts, firsts[i])])])

\* lines 44-46: the dict comprehension over patterns.json: a key stands where it
\* first occurs and holds the value of its last occurrence
LoadRules(dicts) == LoadedAt(dicts, FirstOccurrences(dicts))

\* a file _load reads: it exists and json.load does not raise JSONDecodeError
Readable(file) == file.exists /\ ~file.torn

\* PatternStore.__init__ and _load on a data directory holding these two files
load(fileP, fileH, now) ==
    [patterns |-> ensure_defaults(IF Readable(fileP) THEN LoadRules(fileP.data) ELSE <<>>, now),
     history |-> IF Readable(fileH) THEN fileH.data ELSE <<>>,
     diskPatterns |-> fileP,
     diskHistory |-> fileH]

\* [p.to_dict() for p in self._patterns.values()]
ToDicts(rules) == ListOf([k \in 1..Len(rules) |-> to_dict(rules[k])])

\* seq[-n:] for n >= 0: -0 is 0, so seq[-0:] is the whole of seq
LastN(seq, n) ==
    IF n = 0 \/ Len(seq) <= n THEN seq ELSE SubSeq(seq, Len(seq) - n + 1, Len(seq))

\* the buggy twin of save: history.json is not written
SaveRulesOnly(st) ==
    [st EXCEPT !.diskPatterns =
        [exists |-> TRUE, torn |-> FALSE, object |-> TRUE,
         data |-> ToDicts(st.patterns)]]

\* PatternStore._save
save(st) ==
    [st EXCEPT
        !.diskPatterns =
            [exists |-> TRUE, torn |-> FALSE, object |-> TRUE,
             data |-> ToDicts(st.patterns)],
        !.diskHistory =
            [exists |-> TRUE, torn |-> FALSE, object |-> TRUE,
             data |-> LastN(st.history, HistoryKeep)]]

\* whether rule a goes before rule b under key (-priority, -use_count)
Before(a, b) ==
    a.priority > b.priority \/ (a.priority = b.priority /\ a.use_count > b.use_count)

\* list.sort: stable, so rule goes after every rule it does not go before
RECURSIVE InsertSorted(_, _)
InsertSorted(sorted, rule) ==
    IF sorted = <<>> THEN <<rule>>
    ELSE IF Before(rule, sorted[Len(sorted)])
         THEN Append(InsertSorted(SubSeq(sorted, 1, Len(sorted) - 1), rule), sorted[Len(sorted)])
    ELSE Append(sorted, rule)

RECURSIVE SortRules(_)
SortRules(rules) ==
    IF rules = <<>> THEN <<>>
    ELSE InsertSorted(SortRules(SubSeq(rules, 1, Len(rules) - 1)), rules[Len(rules)])

\* PatternStore.get_patterns_for_type
get_patterns_for_type(rules, docType) ==
    SortRules(SelectSeq(rules, LAMBDA r : r.document_type = docType))

\* get_best_pattern returning None
NoRule == [id |-> "None"]

\* lines 121-124: the first rule with criteria that matches, NoRule when none does
RECURSIVE FirstSpecific(_, _)
FirstSpecific(sorted, doc) ==
    IF sorted = <<>> THEN NoRule
    ELSE IF HasCriteria(Head(sorted)) /\ matches_document(Head(sorted), doc) THEN Head(sorted)
    ELSE FirstSpecific(Tail(sorted), doc)

\* the buggy twin of Fallback: the general rules are not looked for
FallbackFirstRule(sorted) == IF sorted # <<>> THEN sorted[1] ELSE NoRule

\* lines 127-131: the first general rule, else the first rule, else None
Fallback(sorted) ==
    LET general == SelectSeq(sorted, LAMBDA r : ~HasCriteria(r))
    IN  IF general # <<>> THEN general[1]
        ELSE IF sorted # <<>> THEN sorted[1]
        ELSE NoRule

\* PatternStore.get_best_pattern
get_best_pattern(rules, doc) ==
    IF FirstSpecific(get_patterns_for_type(rules, doc.document_type), doc) # NoRule
    THEN FirstSpecific(get_patterns_for_type(rules, doc.document_type), doc)
    ELSE Fallback(get_patterns_for_type(rules, doc.document_type))

\* id=f"custom_{uuid.uuid4().hex[:8]}": the n-th identifier drawn, new each time
CustomId(n) == "custom_0000000" \o ToString(n)

\* PatternStore.add_pattern; uid is the identifier uuid4 gives
add_pattern(st, uid, docType, pattern, name, description, keywords, institutions, priority, now) ==
    LET rule == [id |-> uid, document_type |-> docType, pattern |-> pattern,
                 name |-> IF name # "" THEN name
                          ELSE "Custom " \o TypeValue(docType) \o " Pattern",
                 description |-> description,
                 use_count |-> 0, last_used |-> NoTime, created_at |-> now,
                 match_keywords |-> keywords, match_institutions |-> institutions,
                 priority |-> priority, is_custom |-> TRUE]
    IN  [st |-> save([st EXCEPT !.patterns = PutRule(@, rule)]), ret |-> rule]

\* the buggy twin of delete_pattern: the is_custom test is missing
DeleteAnyRule(st, id) ==
    IF IndexOfId(st.patterns, id) = 0 THEN [st |-> st, ret |-> FALSE]
    ELSE [st |-> save([st EXCEPT !.patterns = RemoveAt(@, IndexOfId(st.patterns, id))]),
          ret |-> TRUE]

\* PatternStore.delete_pattern
delete_pattern(st, id) ==
    IF IndexOfId(st.patterns, id) = 0 THEN [st |-> st, ret |-> FALSE]
    ELSE IF ~st.patterns[IndexOfId(st.patterns, id)].is_custom THEN [st |-> st, ret |-> FALSE]
    ELSE [st |-> save([st EXCEPT !.patterns = RemoveAt(@, IndexOfId(st.patterns, id))]),
          ret |-> TRUE]

\* lines 231-238: the history entry of a use
HistoryEntry(id, doc, newName, now) ==
    [timestamp |-> now, pattern_id |-> id,
     document_type |-> TypeValue(doc.document_type),
     original_name |-> doc.original_name, new_name |-> newName,
     institution |-> doc.institution]

\* the buggy twin of BumpUse: use_count = 1 in place of use_count += 1
BumpUseOnce(rules, id, now) ==
    IF HasId(rules, id)
    THEN [rules EXCEPT ![IndexOfId(rules, id)] =
             [@ EXCEPT !.use_count = 1, !.last_used = now]]
    ELSE rules

\* lines 225-228: the rule's counters, when the rule exists
BumpUse(rules, id, now) ==
    IF HasId(rules, id)
    THEN [rules EXCEPT ![IndexOfId(rules, id)] =
             [@ EXCEPT !.use_count = @ + 1, !.last_used = now]]
    ELSE rules

\* PatternStore.record_usage
record_usage(st, id, doc, newName, now) ==
    [st |-> save([st EXCEPT !.patterns = BumpUse(@, id, now),
                            !.history = Append(@, HistoryEntry(id, doc, newName, now))]),
     ret |-> "None"]

\* the buggy twin of ListsInstitution: the two .lower() are left out
ListsInstitutionExact(rule, docType, institution) ==
    /\ rule.document_type = docType
    /\ \E k \in 1..Len(rule.match_institutions) : rule.match_institutions[k] = institution

\* lines 259-260: the rule is of this type and lists the institution, whatever the case
ListsInstitution(rule, docType, institution) ==
    /\ rule.document_type = docType
    /\ \E k \in 1..Len(rule.match_institutions) :
           Lower(rule.match_institutions[k]) = Lower(institution)

\* lines 258-260: the position of the first rule in dict order that lists it, 0 when none
FirstListing(rules, docType, institution) ==
    IF \E k \in 1..Len(rules) : ListsInstitution(rules[k], docType, institution)
    THEN CHOOSE k \in 1..Len(rules) :
             /\ ListsInstitution(rules[k], docType, institution)
             /\ \A j \in 1..(k - 1) : ~ListsInstitution(rules[j], docType, institution)
    ELSE 0

\* the buggy twin of Relearn: the rule that takes the template becomes a custom rule
RelearnAsCustom(st, k, pattern, now) ==
    LET rule == [st.patterns[k] EXCEPT !.pattern = pattern, !.use_count = @ + 1,
                                       !.last_used = now, !.is_custom = TRUE]
    IN  [st |-> save([st EXCEPT !.patterns[k] = rule]), ret |-> rule]

\* lines 262-266: the existing rule takes the template and counts a use
Relearn(st, k, pattern, now) ==
    LET rule == [st.patterns[k] EXCEPT !.pattern = pattern, !.use_count = @ + 1,
                                       !.last_used = now]
    IN  [st |-> save([st EXCEPT !.patterns[k] = rule]), ret |-> rule]

\* priority=10, line 274
LearnedPriority == 10

\* PatternStore.learn_from_batch; uid is the identifier uuid4 would give
learn_from_batch(st, uid, docType, pattern, institution, now) ==
    IF institution # "" /\ FirstListing(st.patterns, docType, institution) > 0
    THEN Relearn(st, FirstListing(st.patterns, docType, institution), pattern, now)
    ELSE add_pattern(st, uid, docType, pattern,
                     (IF institution # "" THEN institution ELSE TypeValue(docType))
                         \o " Pattern",
                     "", <<>>,
                     IF institution # "" THEN <<institution>> ELSE <<>>,
                     LearnedPriority, now)

\* the buggy twin of ApplyUpdate: every field is assigned, supplied or not
ApplyUpdateAll(rule, upd) ==
    [rule EXCEPT
        !.pattern = upd.pattern, !.name = upd.name, !.description = upd.description,
        !.match_keywords = upd.match_keywords,
        !.match_institutions = upd.match_institutions, !.priority = upd.priority]

\* lines 186-197: each supplied field replaces the rule's
ApplyUpdate(rule, upd) ==
    [rule EXCEPT
        !.pattern = IF "pattern" \in upd.supplied THEN upd.pattern ELSE @,
        !.name = IF "name" \in upd.supplied THEN upd.name ELSE @,
        !.description = IF "description" \in upd.supplied THEN upd.description ELSE @,
        !.match_keywords = IF "match_keywords" \in upd.supplied THEN upd.match_keywords ELSE @,
        !.match_institutions =
            IF "match_institutions" \in upd.supplied THEN upd.match_institutions ELSE @,
        !.priority = IF "priority" \in upd.supplied THEN upd.priority ELSE @]

\* PatternStore.update_pattern; upd.supplied names the arguments that are not None
update_pattern(st, id, upd) ==
    IF IndexOfId(st.patterns, id) = 0 THEN [st |-> st, ret |-> NoRule]
    ELSE [st |-> save([st EXCEPT !.patterns[IndexOfId(st.patterns, id)] =
                                     ApplyUpdate(@, upd)]),
          ret |-> ApplyUpdate(st.patterns[IndexOfId(st.patterns, id)], upd)]

(***************************************************************************)
(* The values the variables of a specification that does not use them keep.*)
(***************************************************************************)

\* a file of the data directory that does not exist
NoFile == [exists |-> FALSE, torn |-> FALSE, object |-> TRUE, data |-> <<>>]

\* a file opened for writing and not written to its end: empty, or the beginning
\* of a JSON document
TornFile == [exists |-> TRUE, torn |-> TRUE, object |-> TRUE, data |-> <<>>]

\* no call made yet
NoCall == [op |-> "none"]

\* a result not produced yet
NoResult == [done |-> FALSE, value |-> ""]

StoreIdle ==
    /\ patterns = <<>> /\ history = <<>>
    /\ diskPatterns = NoFile /\ diskHistory = NoFile
    /\ clock = 0 /\ nextUid = 0

\* no call of get_unique_path under way
NoLoop == [pc |-> "idle"]

FsIdle == files = {} /\ dirs = {} /\ loop = NoLoop

(***************************************************************************)
(* SpecSanitize: sanitize_filename applied to one name.                    *)
(***************************************************************************)

\* the longest name made of SanitizeAlphabet that is tried
MaxNameLen == 4

\* an ordinary character, the two whitespace characters, the dash, the dot and
\* two of the invalid characters
SanitizeAlphabet == <<"a", " ", "\t", "-", ".", ":", "/">>

\* every string of at most n characters of alphabet
RECURSIVE StringsUpTo(_, _)
StringsUpTo(alphabet, n) ==
    IF n = 0 THEN {""}
    ELSE LET shorter == StringsUpTo(alphabet, n - 1)
         IN  shorter \cup {s \o alphabet[i] : s \in shorter, i \in 1..Len(alphabet)}

\* names as the renderer and a user produce them, and each invalid character
SanitizeNames ==
    {"Invoice", "2024-03-15 - Whole Foods", "2023 - K-1 - Fidelity", "report.v2",
     "a<b", "a>b", "a:b", "a\"b", "a/b", "a\\b", "a|b", "a?b", "a*b", "<>:\"/\\|?*"}

SanitizeInputs == StringsUpTo(SanitizeAlphabet, MaxNameLen) \cup SanitizeNames

InitSanitize ==
    /\ sIn \in SanitizeInputs
    /\ sDoc = NoDoc
    /\ sOut = NoResult
    /\ StoreIdle /\ FsIdle /\ last = NoCall

\* result = sanitize_filename(name)
Sanitize ==
    /\ ~sOut.done
    /\ sOut' = [done |-> TRUE, value |-> sanitize_filename(sIn)]
    /\ UNCHANGED <<storeVars, fsVars, loop, last, sIn, sDoc>>

NextSanitize == Sanitize

SpecSanitize == InitSanitize /\ [][NextSanitize]_vars

\* whether some character of s is in the set cs
HasCharIn(s, cs) == \E i \in 1..Len(s) : CharAt(s, i) \in cs

\* whether s holds two adjacent characters that both satisfy the test in cs
HasPairIn(s, cs) == \E i \in 1..(Len(s) - 1) : CharAt(s, i) \in cs /\ CharAt(s, i + 1) \in cs

\* whether s is only dots between leading and trailing whitespace
OnlyDots(s) == \A i \in 1..Len(Strip(s)) : CharAt(Strip(s), i) = "."

\* C6: for every input, sanitize_filename returns a non-empty string with none of
\* the characters < > : " / \ | ? *, and "unnamed" for the empty string and for
\* every input that reduces to empty (only dots inside surrounding whitespace).
C6_SanitizeSafeNonEmpty ==
    sOut.done =>
        /\ sOut.value # ""
        /\ ~HasCharIn(sOut.value, InvalidChars)
        /\ (sIn = "" => sOut.value = "unnamed")
        /\ (OnlyDots(sIn) => sOut.value = "unnamed")

\* an input with an invalid character has been sanitized to a name of its own
C6_Witness ==
    /\ sOut.done
    /\ HasCharIn(sIn, InvalidChars)
    /\ sOut.value = "a - b"

\* C7: for every input, the output of sanitize_filename has no leading or trailing
\* whitespace, no leading or trailing dot, no run of two or more whitespace
\* characters and no run of two or more dashes.
C7_SanitizeTrimmedCollapsed ==
    sOut.done =>
        LET v == sOut.value
        IN  /\ ~IsSpace(Head(v)) /\ ~IsSpace(CharAt(v, Len(v)))
            /\ Head(v) # "." /\ CharAt(v, Len(v)) # "."
            /\ ~HasPairIn(v, {" ", "\t"})
            /\ ~HasPairIn(v, {"-"})

(***************************************************************************)
(* SpecRender: PatternRule.apply_to_document applied to one template and   *)
(* one document.                                                           *)
(***************************************************************************)

\* the most pieces a free-form template is made of
MaxPieces == 4

\* the most units a " - "-joined template is made of
MaxUnits == 4

\* braces alone, a known token, an unknown one, and the characters the clean-up reads
TemplatePieces == <<"{", "}", "a", "{Year}", " ", "-">>

\* documents whose year or amount holds braces, beside plain ones
BraceDocs ==
    {[NoDoc EXCEPT !.year = y, !.amount = a] :
        y \in {"", "2023", "{", "}", "{a}", "{Amount}"}, a \in {"", "$5"}}

\* the units of a joined template: tokens and a literal word
TemplateUnits == <<"{Year}", "{Institution}", "{Amount}", "K-1">>

\* every " - "-joined template of at most n units
RECURSIVE JoinedUpTo(_)
JoinedUpTo(n) ==
    IF n = 1 THEN {TemplateUnits[i] : i \in 1..Len(TemplateUnits)}
    ELSE LET shorter == JoinedUpTo(n - 1)
         IN  shorter \cup {s \o " - " \o TemplateUnits[i] :
                              s \in shorter, i \in 1..Len(TemplateUnits)}

\* the templates of the default catalog: each is tokens and words joined by " - "
CatalogTemplates == {DEFAULT_PATTERNS[i].pattern : i \in 1..Len(DEFAULT_PATTERNS)}

\* documents with any subset of the fields the joined templates' tokens read
UnitDocs ==
    {[NoDoc EXCEPT !.year = y, !.institution = i, !.amount = a] :
        y \in {"", "2023"}, i \in {"", "Fidelity"}, a \in {"", "$42.10"}}

\* documents with any subset of the fields the catalog's tokens read
CatalogDocs ==
    {[NoDoc EXCEPT !.date = d, !.year = y, !.merchant = m, !.amount = a,
                   !.account_number = n, !.form_type = f, !.institution = i,
                   !.description = t] :
        d \in {"", "2024-03-15"}, y \in {"", "2023"}, m \in {"", "Whole Foods"},
        a \in {"", "$42.10"}, n \in {"", "12345678"}, f \in {"", "1099"},
        i \in {"", "Fidelity"}, t \in {"", "Groceries"}}

\* the (template, document) pairs whose template is tokens and words joined by " - "
JoinedInputs ==
    (JoinedUpTo(MaxUnits) \X UnitDocs) \cup (CatalogTemplates \X CatalogDocs)

RenderInputs ==
    JoinedInputs \cup (StringsUpTo(TemplatePieces, MaxPieces) \X BraceDocs)

InitRender ==
    /\ \E in \in RenderInputs : sIn = in[1] /\ sDoc = in[2]
    /\ sOut = NoResult
    /\ StoreIdle /\ FsIdle /\ last = NoCall

\* new_name = rule.apply_to_document(doc)
Render ==
    /\ ~sOut.done
    /\ sOut' = [done |-> TRUE, value |-> apply_to_document(sIn, sDoc)]
    /\ UNCHANGED <<storeVars, fsVars, loop, last, sIn, sDoc>>

NextRender == Render

SpecRender == InitRender /\ [][NextRender]_vars

\* whether s holds a "{", then at least min characters none of which is "}", then a "}"
HasBracePair(s, min) ==
    \E i \in 1..Len(s) :
        /\ CharAt(s, i) = "{"
        /\ IndexFrom(s, "}", i + 1) > i + min

RECURSIVE SplitUnits(_)
SplitUnits(s) ==
    LET k == CHOOSE k \in 1..(Len(s) + 1) :
                 /\ (k <= Len(s) => StartsAt(s, " - ", k))
                 /\ \A j \in 1..(k - 1) : ~StartsAt(s, " - ", j)
    IN  IF k > Len(s) THEN <<s>>
        ELSE <<SubSeq(s, 1, k - 1)>> \o SplitUnits(Drop(s, k + 3))

\* what a unit stands for in a document: a token's value ("" when it has none), or
\* the literal word itself
UnitText(unit, items) ==
    IF Head(unit) = "{" THEN TokenValue(items, SubSeq(unit, 2, Len(unit) - 1)) ELSE unit

\* the non-empty texts of the units, joined by single " - " separators
RECURSIVE JoinResolved(_, _)
JoinResolved(units, items) ==
    IF units = <<>> THEN ""
    ELSE LET text == UnitText(Head(units), items)
             rest == JoinResolved(Tail(units), items)
         IN  IF text = "" THEN rest
             ELSE IF rest = "" THEN text
             ELSE text \o " - " \o rest

\* C5: for a template of tokens and literal words joined by " - " and any subset
\* of resolvable tokens, render returns the resolved values and the literals
\* joined by single " - " separators, the unresolved tokens omitted.
C5_JoinedRender ==
    (sOut.done /\ <<sIn, sDoc>> \in JoinedInputs) =>
        sOut.value = JoinResolved(SplitUnits(sIn), get_token_values(sDoc))

(***************************************************************************)
(* SpecMatch: PatternRule.matches_document applied to one rule and one     *)
(* document.                                                               *)
(***************************************************************************)

\* a rule of the catalog, the base of the rules that are tried
BaseRule == DefaultRule(DEFAULT_PATTERNS[1], 0)

\* keywords: none, one, one in upper case that reaches over two fields of the
\* document, the empty keyword, and two
MatchKeywords == {<<>>, <<"1099">>, <<"K-1 Acme">>, <<"">>, <<"w-2", "bank acme">>}

\* institutions: none, a part of a name, a name in upper case, the empty name, and two
MatchInstitutions == {<<>>, <<"acme">>, <<"ACME BANK">>, <<"">>, <<"chase", "Bank">>}

MatchRules ==
    {[BaseRule EXCEPT !.document_type = t, !.match_keywords = kw,
                      !.match_institutions = inst] :
        t \in {"TAX_DOCUMENT", "RECEIPT"}, kw \in MatchKeywords, inst \in MatchInstitutions}

\* documents of two types with any subset of the four fields the match reads
MatchDocs ==
    {[NoDoc EXCEPT !.document_type = t, !.description = d, !.institution = i,
                   !.merchant = m, !.form_type = f] :
        t \in {"TAX_DOCUMENT", "RECEIPT"}, d \in {"", "Schedule K-1"},
        i \in {"", "Acme Bank", "Chase"}, m \in {"", "Acme"}, f \in {"", "1099"}}

InitMatch ==
    /\ sIn \in MatchRules
    /\ sDoc \in MatchDocs
    /\ sOut = NoResult
    /\ StoreIdle /\ FsIdle /\ last = NoCall

\* rule.matches_document(doc)
Match ==
    /\ ~sOut.done
    /\ sOut' = [done |-> TRUE, value |-> matches_document(sIn, sDoc)]
    /\ UNCHANGED <<storeVars, fsVars, loop, last, sIn, sDoc>>

NextMatch == Match

SpecMatch == InitMatch /\ [][NextMatch]_vars

\* whether t is s between two positions of s
IsSubstring(t, s) == \E i \in 0..Len(s) : \E j \in i..Len(s) : SubSeq(s, i + 1, j) = t

\* the texts joined by single spaces
RECURSIVE SpaceJoined(_)
SpaceJoined(texts) ==
    IF texts = <<>> THEN ""
    ELSE IF Len(texts) = 1 THEN texts[1]
    ELSE texts[1] \o " " \o SpaceJoined(Tail(texts))

\* the lowercase blob of a document: its description, institution, merchant and
\* form_type, those that are present, joined by spaces
Blob(d) ==
    Lower(SpaceJoined(SelectSeq(<<d.description, d.institution, d.merchant, d.form_type>>,
                                LAMBDA text : text # "")))

\* whether some keyword of r, lowercased, is a substring of the blob of d
KeywordInBlob(r, d) ==
    \E k \in 1..Len(r.match_keywords) : IsSubstring(Lower(r.match_keywords[k]), Blob(d))

\* whether some institution of r is a substring of d's institution, whatever the case
InstitutionInField(r, d) ==
    \E k \in 1..Len(r.match_institutions) :
        IsSubstring(Lower(r.match_institutions[k]), Lower(d.institution))

MaxRules == 3

\* the (priority, use_count) pairs of the rules that are tried
SelectRanks == <<<<5, 0>>, <<5, 1>>, <<10, 0>>>>

\* the criteria of the rules that are tried: none, a keyword, an institution
SelectCriteria == <<<<<<>>, <<>>>>, <<<<"1099">>, <<>>>>, <<<<>>, <<"acme">>>>>>

\* tax rules of every rank and criteria, and one general receipt rule
SelectPool ==
    {[BaseRule EXCEPT !.document_type = "TAX_DOCUMENT",
                      !.priority = SelectRanks[i][1], !.use_count = SelectRanks[i][2],
                      !.match_keywords = SelectCriteria[j][1],
                      !.match_institutions = SelectCriteria[j][2]] :
        i \in 1..Len(SelectRanks), j \in 1..Len(SelectCriteria)}
    \cup {BaseRule}

\* the rule sets of n rules of the pool, in dict order, the k-th under the id "r<k>"
SelectRuleSets(n) ==
    {ListOf([k \in 1..n |-> [f[k] EXCEPT !.id = "r" \o ToString(k)]]) :
        f \in [1..n -> SelectPool]}

\* a tax document with a form type, one with an institution, one with neither,
\* and a document of a type no rule of the pool has
SelectDocs ==
    {[NoDoc EXCEPT !.document_type = "TAX_DOCUMENT", !.form_type = "1099"],
     [NoDoc EXCEPT !.document_type = "TAX_DOCUMENT", !.institution = "Acme Bank"],
     [NoDoc EXCEPT !.document_type = "TAX_DOCUMENT"],
     [NoDoc EXCEPT !.document_type = "BILL"]}

InitSelect ==
    /\ \E n \in 0..MaxRules : sIn \in SelectRuleSets(n)
    /\ sDoc \in SelectDocs
    /\ sOut = NoResult
    /\ StoreIdle /\ FsIdle /\ last = NoCall

\* store.get_best_pattern(doc)
Select ==
    /\ ~sOut.done
    /\ sOut' = [done |-> TRUE, value |-> get_best_pattern(sIn, sDoc)]
    /\ UNCHANGED <<storeVars, fsVars, loop, last, sIn, sDoc>>

NextSelect == Select

SpecSelect == InitSelect /\ [][NextSelect]_vars

\* whether the j-th rule stands before the k-th when the rules are sorted descending
\* by (priority, use_count), rules of one rank staying in the order of the store
Outranks(rules, j, k) ==
    \/ rules[j].priority > rules[k].priority
    \/ rules[j].priority = rules[k].priority /\ rules[j].use_count > rules[k].use_count
    \/ rules[j].priority = rules[k].priority /\ rules[j].use_count = rules[k].use_count
           /\ j < k

\* of the rules at these positions, the one that stands first when sorted
TopOf(rules, positions) ==
    rules[CHOOSE k \in positions : \A j \in positions \ {k} : Outranks(rules, k, j)]

\* the positions of the rules of the document's type
OfType(rules, d) == {k \in 1..Len(rules) : rules[k].document_type = d.document_type}

\* those of them that bear criteria and match the document
Specific(rules, d) ==
    {k \in OfType(rules, d) :
        /\ rules[k].match_keywords # <<>> \/ rules[k].match_institutions # <<>>
        /\ matches_document(rules[k], d)}

\* those of them that bear no criteria
General(rules, d) ==
    {k \in OfType(rules, d) :
        rules[k].match_keywords = <<>> /\ rules[k].match_institutions = <<>>}

\* the reference selection
Selection(rules, d) ==
    IF Specific(rules, d) # {} THEN TopOf(rules, Specific(rules, d))
    ELSE IF General(rules, d) # {} THEN TopOf(rules, General(rules, d))
    ELSE IF OfType(rules, d) # {} THEN TopOf(rules, OfType(rules, d))
    ELSE NoRule

MaxCalls == 3

\* priority: int = 5, line 145
DefaultPriority == 5

\* the store as the record the operations take
Store ==
    [patterns |-> patterns, history |-> history,
     diskPatterns |-> diskPatterns, diskHistory |-> diskHistory]

\* the store after a call
SetStore(st) ==
    /\ patterns' = st.patterns
    /\ history' = st.history
    /\ diskPatterns' = st.diskPatterns
    /\ diskHistory' = st.diskHistory

\* a call has been made: time passes
Tick == clock <= MaxCalls /\ clock' = clock + 1

\* PatternStore(data_dir) on an empty data directory
Init ==
    /\ patterns = load(NoFile, NoFile, 0).patterns
    /\ history = <<>>
    /\ diskPatterns = NoFile
    /\ diskHistory = NoFile
    /\ FsIdle
    /\ clock = 1
    /\ nextUid = 0
    /\ last = NoCall
    /\ sIn = "" /\ sDoc = NoDoc /\ sOut = NoResult

\* the ids of the custom rules of the store
CustomIds == {patterns[k].id : k \in {j \in 1..Len(patterns) : patterns[j].is_custom}}

\* the ids the calls are made with: a default rule, every custom rule, and an id
\* no rule has
CallIds == {"tax_default", "missing"} \cup CustomIds

\* the documents the calls are made with
CallDocs ==
    {[NoDoc EXCEPT !.file_path = "/in/scan0001.pdf", !.original_name = "scan0001.pdf",
                   !.document_type = "TAX_DOCUMENT", !.institution = "Acme Bank"]}

\* the updates update_pattern is called with
CallUpdates ==
    {[supplied |-> {"pattern"}, pattern |-> "{Year} - {Form}", name |-> "", description |-> "",
      match_keywords |-> <<>>, match_institutions |-> <<>>, priority |-> 0],
     [supplied |-> {"priority", "match_institutions"}, pattern |-> "", name |-> "",
      description |-> "", match_keywords |-> <<>>,
      match_institutions |-> <<"Acme Bank">>, priority |-> 20],
     [supplied |-> {"name", "description", "match_keywords"}, pattern |-> "",
      name |-> "Renamed", description |-> "", match_keywords |-> <<"k-1">>,
      match_institutions |-> <<>>, priority |-> 0]}

AddPattern ==
    /\ Tick
    /\ \E kw \in {<<"1099">>}, inst \in {<<>>, <<"Acme Bank">>} :
         LET r == add_pattern(Store, CustomId(nextUid + 1), "TAX_DOCUMENT",
                              "{Date} - {Merchant}", "", "", kw, inst, DefaultPriority, clock)
         IN  /\ SetStore(r.st)
             /\ last' = [op |-> "add_pattern", ret |-> r.ret, pre |-> Store]
    /\ nextUid' = nextUid + 1
    /\ UNCHANGED <<fsVars, loop, pureVars>>

UpdatePattern ==
    /\ Tick
    /\ \E id \in CallIds, upd \in CallUpdates :
         LET r == update_pattern(Store, id, upd)
         IN  /\ SetStore(r.st)
             /\ last' = [op |-> "update_pattern", id |-> id, upd |-> upd, ret |-> r.ret,
                         pre |-> Store]
    /\ UNCHANGED <<fsVars, loop, nextUid, pureVars>>

DeletePattern ==
    /\ Tick
    /\ \E id \in CallIds :
         LET r == delete_pattern(Store, id)
         IN  /\ SetStore(r.st)
             /\ last' = [op |-> "delete_pattern", id |-> id, ret |-> r.ret, pre |-> Store]
    /\ UNCHANGED <<fsVars, loop, nextUid, pureVars>>

RecordUsage ==
    /\ Tick
    /\ \E id \in CallIds, doc \in CallDocs :
         LET r == record_usage(Store, id, doc, "2023 - Acme Bank.pdf", clock)
         IN  /\ SetStore(r.st)
             /\ last' = [op |-> "record_usage", id |-> id, doc |-> doc,
                         new_name |-> "2023 - Acme Bank.pdf", ret |-> r.ret, pre |-> Store]
    /\ UNCHANGED <<fsVars, loop, nextUid, pureVars>>

\* the (type, institution) pairs learn_from_batch is called with: no institution,
\* one in two spellings, and the same one for another type
CallLearns ==
    {<<"TAX_DOCUMENT", "">>, <<"TAX_DOCUMENT", "Acme Bank">>,
     <<"TAX_DOCUMENT", "ACME BANK">>, <<"RECEIPT", "Acme Bank">>}

\* learn_from_batch draws an identifier only when it adds a rule
LearnFromBatch ==
    /\ Tick
    /\ \E call \in CallLearns :
         LET r == learn_from_batch(Store, CustomId(nextUid + 1), call[1],
                                   "{Year} - {Institution}", call[2], clock)
         IN  /\ SetStore(r.st)
             /\ last' = [op |-> "learn_from_batch", document_type |-> call[1],
                         pattern |-> "{Year} - {Institution}", institution |-> call[2],
                         ret |-> r.ret, pre |-> Store]
             /\ nextUid' = IF HasId(patterns, r.ret.id) THEN nextUid ELSE nextUid + 1
    /\ UNCHANGED <<fsVars, loop, pureVars>>

\* the process is restarted: PatternStore(data_dir) on the same data directory
Reconstruct ==
    /\ Tick
    /\ SetStore(load(diskPatterns, diskHistory, clock))
    /\ last' = [op |-> "reconstruct", pre |-> Store]
    /\ UNCHANGED <<fsVars, loop, nextUid, pureVars>>

Next ==
    \/ AddPattern
    \/ UpdatePattern
    \/ DeletePattern
    \/ RecordUsage
    \/ LearnFromBatch
    \/ Reconstruct

Spec == Init /\ [][Next]_vars


\* the store right after PatternStore(data_dir) on an empty data directory
FreshStore(st) ==
    /\ st.patterns = DefaultRules(0)
    /\ st.history = <<>>
    /\ ~st.diskPatterns.exists
    /\ ~st.diskHistory.exists

\* the tax documents of institution "Acme Bank", with and without other fields
AcmeTaxDocs ==
    {[NoDoc EXCEPT !.document_type = "TAX_DOCUMENT", !.institution = "Acme Bank",
                   !.description = d, !.merchant = m, !.form_type = f] :
        d \in {"", "Schedule K-1"}, m \in {"", "Acme"}, f \in {"", "1099"}}

\* C1: on a freshly seeded store, after learn_from_batch(tax_document,
\* "{Year} - {Institution}", "Acme Bank") returned rule L, get_best_pattern returns
\* L for every tax document of institution "Acme Bank", whatever its other fields
C1_LearnedRuleSelected ==
    (/\ last.op = "learn_from_batch"
     /\ last.document_type = "TAX_DOCUMENT"
     /\ last.institution = "Acme Bank"
     /\ FreshStore(last.pre))
        => \A doc \in AcmeTaxDocs : get_best_pattern(patterns, doc).id = last.ret.id

\* whether rules a and b hold the same rules but for the rule of this id
SameButFor(a, b, id) ==
    /\ {a[k] : k \in {j \in 1..Len(a) : a[j].id # id}}
           = {b[k] : k \in {j \in 1..Len(b) : b[j].id # id}}
    /\ Cardinality({j \in 1..Len(a) : a[j].id # id})
           = Cardinality({j \in 1..Len(b) : b[j].id # id})

\* C2: delete_pattern(id) returns false and leaves the rules, the history and both
\* files as they were when id is absent or names a default rule; when id names a
\* custom rule it returns true, removes that rule only, and persists
C2_DeleteOnlyCustom ==
    last.op = "delete_pattern" =>
        IF \E k \in 1..Len(last.pre.patterns) :
               last.pre.patterns[k].id = last.id /\ last.pre.patterns[k].is_custom
        THEN /\ last.ret = TRUE
             /\ ~HasId(patterns, last.id)
             /\ Len(patterns) = Len(last.pre.patterns) - 1
             /\ SameButFor(patterns, last.pre.patterns, last.id)
             /\ history = last.pre.history
             /\ diskPatterns.exists /\ LoadRules(diskPatterns.data) = patterns
             /\ diskHistory.exists /\ diskHistory.data = history
        ELSE /\ last.ret = FALSE
             /\ Store = last.pre

\* a custom rule was deleted from a store that holds a history
C2_Witness ==
    /\ last.op = "delete_pattern"
    /\ last.ret = TRUE
    /\ last.pre.history # <<>>
    /\ Len(patterns) = Len(DEFAULT_PATTERNS)

\* whether two rules differ in created_at at most
SameButCreated(a, b) == [a EXCEPT !.created_at = 0] = [b EXCEPT !.created_at = 0]

\* whether no id occurs twice
DistinctIds(rules) ==
    \A j, k \in 1..Len(rules) : rules[j].id = rules[k].id => j = k

\* C10: seeding defaults again on a store changes nothing, and the store made again
\* on the same data directory holds the same rules: no id twice, no rule added,
\* and an edited rule keeps its edited values
C10_SeedIdempotent ==
    /\ ensure_defaults(patterns, clock) = patterns
    /\ DistinctIds(patterns)
    /\ last.op = "reconstruct" =>
           /\ Len(patterns) = Len(last.pre.patterns)
           /\ \A k \in 1..Len(patterns) :
                  SameButCreated(patterns[k], last.pre.patterns[k])
           /\ last.pre.diskPatterns.exists => patterns = last.pre.patterns

\* the store was made again after a default rule was edited and used
C10_Witness ==
    /\ last.op = "reconstruct"
    /\ last.pre.diskPatterns.exists
    /\ \E k \in 1..Len(patterns) :
           /\ patterns[k].id = "tax_default"
           /\ patterns[k].priority = 20
           /\ patterns[k].use_count = 1

\* the positions of the rules of this type that list the institution, whatever the case
Listing(rules, docType, institution) ==
    {k \in 1..Len(rules) :
        /\ rules[k].document_type = docType
        /\ \E i \in 1..Len(rules[k].match_institutions) :
               Lower(rules[k].match_institutions[i]) = Lower(institution)}

\* whether rule b is rule a with this template and one more use
Relearned(a, b, template) ==
    /\ b.id = a.id
    /\ b.pattern = template
    /\ b.use_count = a.use_count + 1
    /\ [b EXCEPT !.last_used = 0] =
           [a EXCEPT !.pattern = template, !.use_count = @ + 1, !.last_used = 0]

\* whether rule r is a rule as learn_from_batch creates it
Learned(r, docType, template, institution) ==
    /\ r.is_custom
    /\ r.document_type = docType
    /\ r.pattern = template
    /\ r.match_institutions = (IF institution # "" THEN <<institution>> ELSE <<>>)
    /\ r.match_keywords = <<>>
    /\ r.priority = 10
    /\ r.use_count = 0

C14_LearnedOutranks ==
    (last.op = "learn_from_batch" /\ Len(patterns) = Len(last.pre.patterns) + 1) =>
        /\ last.ret.priority = 10
        /\ \A k \in 1..Len(DEFAULT_PATTERNS) : DEFAULT_PATTERNS[k].priority < 10
        /\ DefaultPriority < 10
        /\ \A k \in 1..Len(get_patterns_for_type(patterns, last.document_type)) :
               LET sorted == get_patterns_for_type(patterns, last.document_type)
               IN  (~sorted[k].is_custom \/ sorted[k].priority = DefaultPriority)
                       => IndexOfId(sorted, last.ret.id) < k

\* whether a history entry tells this use
TellsUse(entry, id, doc, newName) ==
    /\ entry.pattern_id = id
    /\ entry.document_type = TypeValue(doc.document_type)
    /\ entry.original_name = doc.original_name
    /\ entry.new_name = newName
    /\ entry.institution = doc.institution

\* C15: record_usage(id, doc, new_name) appends exactly one history entry (rule
\* id, document type, original name, new name, institution) at the end of the
\* history and leaves the earlier entries unchanged; if id names a rule, that
\* rule's use_count grows by exactly 1 and no other rule changes; if id names no
\* rule, no rule changes and the entry is appended all the same.
C15_RecordUsage ==
    last.op = "record_usage" =>
        /\ Len(history) = Len(last.pre.history) + 1
        /\ SubSeq(history, 1, Len(last.pre.history)) = last.pre.history
        /\ TellsUse(history[Len(history)], last.id, last.doc, last.new_name)
        /\ Len(patterns) = Len(last.pre.patterns)
        /\ \A k \in 1..Len(patterns) :
               IF last.pre.patterns[k].id = last.id
               THEN /\ patterns[k].use_count = last.pre.patterns[k].use_count + 1
                    /\ [patterns[k] EXCEPT !.use_count = 0, !.last_used = 0]
                           = [last.pre.patterns[k] EXCEPT !.use_count = 0, !.last_used = 0]
               ELSE patterns[k] = last.pre.patterns[k]

\* a rule used before was used again, and then a use of an id no rule has was
\* recorded
C15_Witness ==
    /\ last.op = "record_usage"
    /\ last.id = "missing"
    /\ Len(history) = 3
    /\ history[3].pattern_id = "missing"
    /\ \E k \in 1..Len(patterns) : patterns[k].id = "tax_default" /\ patterns[k].use_count = 2

(***************************************************************************)
(* SpecTrim: the calls of Spec, made by a process that starts on a data    *)
(* directory an earlier process left with a long history.                  *)
(***************************************************************************)

\* the history the earlier process left: n uses of tax_default, at the times
\* 1 - n .. 0 before this process started
EarlierHistory(n) ==
    ListOf([k \in 1..n |->
               HistoryEntry("tax_default",
                            [NoDoc EXCEPT !.file_path = "/in/scan0000.pdf",
                                          !.original_name = "scan0000.pdf",
                                          !.document_type = "TAX_DOCUMENT"],
                            "2022 - Acme Bank.pdf", k - n)])

\* the rules the earlier process left: those of the catalog, tax_default used n times
EarlierRules(n) ==
    [DefaultRules(0 - n) EXCEPT
        ![IndexOfId(DefaultRules(0 - n), "tax_default")] =
            [@ EXCEPT !.use_count = n, !.last_used = 0]]

\* the data directory after the n-th record_usage of the earlier process
EarlierStore(n) ==
    save([patterns |-> EarlierRules(n), history |-> EarlierHistory(n),
          diskPatterns |-> NoFile, diskHistory |-> NoFile])

\* PatternStore(data_dir) on that directory, with one call fewer left to make
InitTrim ==
    /\ \E n \in {HistoryKeep - 1, HistoryKeep} :
           /\ diskPatterns = EarlierStore(n).diskPatterns
           /\ diskHistory = EarlierStore(n).diskHistory
           /\ patterns = load(EarlierStore(n).diskPatterns, EarlierStore(n).diskHistory, 1).patterns
           /\ history = load(EarlierStore(n).diskPatterns, EarlierStore(n).diskHistory, 1).history
    /\ FsIdle
    /\ clock = 2
    /\ nextUid = 0
    /\ last = NoCall
    /\ sIn = "" /\ sDoc = NoDoc /\ sOut = NoResult

SpecTrim == InitTrim /\ [][Next]_vars

\* whether the last call was a mutating operation that took effect
Mutated ==
    \/ last.op \in {"add_pattern", "record_usage", "learn_from_batch"}
    \/ last.op = "update_pattern" /\ HasId(last.pre.patterns, last.id)
    \/ last.op = "delete_pattern" /\ last.ret = TRUE

\* C19: after every mutating operation (add_pattern, update_pattern of an
\* existing id, delete_pattern of a custom rule, record_usage, learn_from_batch)
\* has returned, the rules file holds exactly the rules in memory and the history
\* file holds exactly the last 1000 entries of the history in memory, never more,
\* so that a store made again on the directory has the same rules and the same
\* most recent history.
C19_Persisted ==
    Mutated =>
        /\ diskPatterns.exists
        /\ Len(diskPatterns.data) = Len(patterns)
        /\ \A k \in 1..Len(patterns) : from_dict(diskPatterns.data[k]) = patterns[k]
        /\ diskHistory.exists
        /\ Len(diskHistory.data) <= 1000
        /\ Len(diskHistory.data) = (IF Len(history) <= 1000 THEN Len(history) ELSE 1000)
        /\ \A k \in 1..Len(diskHistory.data) :
               diskHistory.data[k] = history[Len(history) - Len(diskHistory.data) + k]
        /\ load(diskPatterns, diskHistory, clock) =
               [patterns |-> patterns, history |-> diskHistory.data,
                diskPatterns |-> diskPatterns, diskHistory |-> diskHistory]

\* the 1001st use was recorded: the history in memory holds 1001 entries, the
\* file the last 1000 of them
C19_Witness ==
    /\ last.op = "record_usage"
    /\ Len(history) = 1001
    /\ Len(diskHistory.data) = 1000
    /\ diskHistory.data[1] = history[2]
    /\ diskHistory.data[1000].pattern_id = "missing"

(***************************************************************************)
(* SpecCrash: one mutating call of the store, its _save taken write by     *)
(* write, and the process stopped at any point of it.                      *)
(***************************************************************************)

\* the stores the call is made on: a custom rule added; then a use of it recorded;
\* an institution learned and a use of a default rule recorded
CrashStores ==
    LET fresh == load(NoFile, NoFile, 0)
        added == add_pattern(fresh, CustomId(1), "TAX_DOCUMENT", "{Date} - {Merchant}",
                             "", "", <<"1099">>, <<>>, DefaultPriority, 0).st
        learned == learn_from_batch(fresh, CustomId(1), "TAX_DOCUMENT",
                                    "{Year} - {Institution}", "Acme Bank", 0).st
        doc == [NoDoc EXCEPT !.file_path = "/in/scan0000.pdf",
                             !.original_name = "scan0000.pdf",
                             !.document_type = "TAX_DOCUMENT"]
    IN  {added,
         record_usage(added, CustomId(1), doc, "2022 - Acme Bank.pdf", 0).st,
         record_usage(learned, "tax_default", doc, "2022 - Acme Bank.pdf", 0).st}

InitCrash ==
    /\ \E st \in CrashStores :
           /\ patterns = st.patterns /\ history = st.history
           /\ diskPatterns = st.diskPatterns /\ diskHistory = st.diskHistory
    /\ FsIdle
    /\ clock = 1
    /\ nextUid = 1
    /\ last = NoCall
    /\ sIn = "" /\ sDoc = NoDoc /\ sOut = NoResult

\* the call has changed the rules and the history in memory and enters _save; r
\* is the call run to its end
EnterSave(op, r) ==
    /\ patterns' = r.st.patterns
    /\ history' = r.st.history
    /\ nextUid' = IF Len(r.st.patterns) > Len(patterns) THEN nextUid + 1 ELSE nextUid
    /\ last' = [op |-> op, pc |-> "open_patterns", at |-> "", before |-> Store,
                after |-> r.st]

\* a mutating call that reaches _save
MutatingCall ==
    /\ last = NoCall
    /\ \/ EnterSave("add_pattern",
                    add_pattern(Store, CustomId(nextUid + 1), "TAX_DOCUMENT",
                                "{Date} - {Merchant}", "", "", <<"1099">>, <<>>,
                                DefaultPriority, clock))
       \/ \E id \in {"tax_default"} \cup CustomIds, upd \in CallUpdates :
              EnterSave("update_pattern", update_pattern(Store, id, upd))
       \/ \E id \in CustomIds : EnterSave("delete_pattern", delete_pattern(Store, id))
       \/ \E id \in CallIds, doc \in CallDocs :
              EnterSave("record_usage",
                        record_usage(Store, id, doc, "2023 - Acme Bank.pdf", clock))
       \/ \E call \in CallLearns :
              EnterSave("learn_from_batch",
                        learn_from_batch(Store, CustomId(nextUid + 1), call[1],
                                         "{Year} - {Institution}", call[2], clock))
    /\ clock' = clock + 1
    /\ UNCHANGED <<diskPatterns, diskHistory, fsVars, loop, pureVars>>

\* line 87: open(self.patterns_file, "w") truncates patterns.json
OpenPatterns ==
    /\ last # NoCall /\ last.pc = "open_patterns"
    /\ diskPatterns' = TornFile
    /\ last' = [last EXCEPT !.pc = "dump_patterns"]
    /\ UNCHANGED <<patterns, history, diskHistory, clock, nextUid, fsVars, loop, pureVars>>

\* line 88: json.dump has written the whole document, and the file is closed
DumpPatterns ==
    /\ last # NoCall /\ last.pc = "dump_patterns"
    /\ diskPatterns' = last.after.diskPatterns
    /\ last' = [last EXCEPT !.pc = "open_history"]
    /\ UNCHANGED <<patterns, history, diskHistory, clock, nextUid, fsVars, loop, pureVars>>

\* line 96: open(self.history_file, "w") truncates history.json
OpenHistory ==
    /\ last # NoCall /\ last.pc = "open_history"
    /\ diskHistory' = TornFile
    /\ last' = [last EXCEPT !.pc = "dump_history"]
    /\ UNCHANGED <<patterns, history, diskPatterns, clock, nextUid, fsVars, loop, pureVars>>

\* line 97: json.dump has written the whole document; _save and the call return
DumpHistory ==
    /\ last # NoCall /\ last.pc = "dump_history"
    /\ diskHistory' = last.after.diskHistory
    /\ last' = [last EXCEPT !.pc = "returned"]
    /\ UNCHANGED <<patterns, history, diskPatterns, clock, nextUid, fsVars, loop, pureVars>>

\* the process stops where it is, in the call or after it (a crash, or a write
\* that raises), and PatternStore(data_dir) is made again on the directory
CrashAndReconstruct ==
    /\ last # NoCall
    /\ last.pc \in {"open_patterns", "dump_patterns", "open_history", "dump_history",
                    "returned"}
    /\ SetStore(load(diskPatterns, diskHistory, clock))
    /\ last' = [last EXCEPT !.pc = "reconstructed", !.at = last.pc]
    /\ clock' = clock + 1
    /\ UNCHANGED <<nextUid, fsVars, loop, pureVars>>

NextCrash ==
    \/ MutatingCall
    \/ OpenPatterns
    \/ DumpPatterns
    \/ OpenHistory
    \/ DumpHistory
    \/ CrashAndReconstruct

SpecCrash == InitCrash /\ [][NextCrash]_vars

\* C20: a crash or a failed write at any point of a mutating call loses at most
\* that call: the store made again on the directory holds, for the rules and for
\* the history each, either what was committed before the call or what the
\* completed call commits, never an empty or cut one, and a failure in the
\* writing of one file leaves the other's committed content as it was.
C20_CrashLosesAtMostCall ==
    (last # NoCall /\ last.pc = "reconstructed") =>
        /\ patterns \in {last.before.patterns, last.after.patterns}
        /\ history \in {last.before.history, last.after.history}
        /\ last.at \in {"open_patterns", "dump_patterns"} =>
               diskHistory = last.before.diskHistory
        /\ last.at \in {"open_history", "dump_history"} =>
               diskPatterns = last.after.diskPatterns

(***************************************************************************)
(* tools/file_renamer.py: paths.  A path is the string str(Path(...))      *)
(* gives: absolute, no trailing slash, no empty or dot component.  A       *)
(* filesystem fs is [files, dirs], the paths of the regular files and of   *)
(* the directories.                                                        *)
(***************************************************************************)

\* str.rfind(c) + 1: the last position of character c in s, 0 when there is none
LastIndexOf(s, c) ==
    IF \E i \in 1..Len(s) : CharAt(s, i) = c
    THEN CHOOSE i \in 1..Len(s) :
             CharAt(s, i) = c /\ \A j \in (i + 1)..Len(s) : CharAt(s, j) # c
    ELSE 0

\* Path.name
PathName(p) == SubSeq(p, LastIndexOf(p, "/") + 1, Len(p))

\* Path.parent
PathParent(p) ==
    IF LastIndexOf(p, "/") <= 1 THEN "/" ELSE SubSeq(p, 1, LastIndexOf(p, "/") - 1)

\* Path.suffix: name[i:] for the last dot i, when 0 < i < len(name) - 1
PathSuffix(p) ==
    LET name == PathName(p)
        i == LastIndexOf(name, ".")
    IN  IF 1 < i /\ i < Len(name) THEN SubSeq(name, i, Len(name)) ELSE ""

\* Path.stem
PathStem(p) ==
    LET name == PathName(p)
        i == LastIndexOf(name, ".")
    IN  IF 1 < i /\ i < Len(name) THEN SubSeq(name, 1, i - 1) ELSE name

\* parent / name
PathJoin(parent, name) == IF parent = "/" THEN "/" \o name ELSE parent \o "/" \o name

\* Path.exists
Exists(fs, p) == p \in fs.files \/ p \in fs.dirs

\* counter > 1000, line 67
SafetyLimit == 1000

\* parent / f"{base} ({counter}){ext}", line 63
NumberedName(parent, base, ext, counter) ==
    PathJoin(parent, base \o " (" \o ToString(counter) \o ")" \o ext)

\* the same, of the path p
Numbered(p, counter) == NumberedName(PathParent(p), PathStem(p), PathSuffix(p), counter)

\* whether the loop of lines 62-68 ends by the raise: every numbered path exists
AllTaken(fs, parent, base, ext) ==
    \A n \in 1..SafetyLimit : Exists(fs, NumberedName(parent, base, ext, n))

\* the buggy twin of FirstFree: the loop returns its first numbered path untested
FirstCounter(fs, parent, base, ext) == 1

\* the counter the loop of lines 62-68 returns at: the first whose path is free
FirstFree(fs, parent, base, ext) ==
    CHOOSE n \in 1..SafetyLimit :
        /\ ~Exists(fs, NumberedName(parent, base, ext, n))
        /\ \A m \in 1..(n - 1) : Exists(fs, NumberedName(parent, base, ext, m))

\* the buggy twin of get_unique_path: the path is returned whether it exists or not
UniquePathNoCheck(fs, p) == [raised |-> "", path |-> p]

\* get_unique_path; raised names the exception that leaves the function
get_unique_path(fs, p) ==
    IF ~Exists(fs, p) THEN [raised |-> "", path |-> p]
    ELSE IF AllTaken(fs, PathParent(p), PathStem(p), PathSuffix(p))
         THEN [raised |-> "ValueError", path |-> ""]
    ELSE [raised |-> "",
          path |-> NumberedName(PathParent(p), PathStem(p), PathSuffix(p),
                                FirstFree(fs, PathParent(p), PathStem(p), PathSuffix(p)))]

(***************************************************************************)
(* tools/file_renamer.py: preview_rename, apply_rename, apply_batch_rename. *)
(* A result is the dict the function returns, as a record; a call that an  *)
(* exception leaves has the result [raised |-> the exception].  An         *)
(* optional directory is [given, dir]: given is FALSE for None.            *)
(***************************************************************************)

\* destination_dir=None
NoDest == [given |-> FALSE, dir |-> ""]

\* an exception leaves the call
Raise(e) == [raised |-> e]

Raised(ret) == "raised" \in DOMAIN ret

\* lines 105-119: the preview, once the unique path is known
PreviewResolved(file_path, new_filename, new_path, dest, unique) ==
    IF unique.raised # "" THEN Raise(unique.raised)
    ELSE [original_path |-> file_path,
          original_name |-> PathName(file_path),
          new_name |-> new_filename,
          new_path |-> unique.path,
          will_move |-> dest.given,
          has_conflict |-> unique.path # new_path,
          conflict_resolution |-> IF unique.path # new_path THEN unique.path ELSE "None"]

\* the buggy twin of PreviewNamed: the destination directory is not looked up
PreviewNamedAnyDest(fs, file_path, dest, new_filename) ==
    PreviewResolved(
        file_path, new_filename,
        PathJoin(IF dest.given /\ dest.dir # "" THEN dest.dir ELSE PathParent(file_path),
                 new_filename),
        dest,
        get_unique_path(fs, PathJoin(IF dest.given /\ dest.dir # "" THEN dest.dir
                                     ELSE PathParent(file_path),
                                     new_filename)))

\* lines 96-106: the destination, then the unique path
PreviewNamed(fs, file_path, dest, new_filename) ==
    IF dest.given /\ dest.dir # "" /\ ~Exists(fs, dest.dir)
    THEN [error |-> "Destination directory not found: " \o dest.dir]
    ELSE PreviewResolved(
             file_path, new_filename,
             PathJoin(IF dest.given /\ dest.dir # "" THEN dest.dir
                      ELSE PathParent(file_path),
                      new_filename),
             dest,
             get_unique_path(fs, PathJoin(IF dest.given /\ dest.dir # "" THEN dest.dir
                                          ELSE PathParent(file_path),
                                          new_filename)))

\* preview_rename
preview_rename(fs, file_path, new_name, dest) ==
    IF ~Exists(fs, file_path) THEN [error |-> "File not found: " \o file_path]
    ELSE PreviewNamed(fs, file_path, dest,
                      sanitize_filename(new_name) \o PathSuffix(file_path))

\* the path and the directories above it
RECURSIVE Ancestors(_)
Ancestors(p) == IF p = "/" THEN {"/"} ELSE {p} \cup Ancestors(PathParent(p))

\* dest.parent.mkdir(parents=True, exist_ok=True) where it does not raise: the
\* directory and every missing directory above it are made
MakeDirs(fs, dir) == [fs EXCEPT !.dirs = @ \cup Ancestors(dir)]

\* shutil.move of a regular file to a path that does not exist
Move(fs, source, dest) == [fs EXCEPT !.files = (@ \ {source}) \cup {dest}]

\* lines 167-181: the results of apply_rename
RenameFailure(file_path, error) ==
    [success |-> FALSE, error |-> error, original_path |-> file_path]

RenameSuccess(file_path, dest, preview) ==
    [success |-> TRUE, original_path |-> file_path, original_name |-> PathName(file_path),
     new_name |-> PathName(dest), new_path |-> dest, was_moved |-> preview.will_move]

\* lines 159-169: the usage recorded for a rename
RenameDoc(file_path, document_type) ==
    [NoDoc EXCEPT !.file_path = file_path, !.original_name = PathName(file_path),
                  !.document_type =
                      from_string(IF document_type # "" THEN document_type ELSE "general")]

\* record_usage left by an exception of _save: the rules and the history in memory
\* are those of the completed call, the files on disk those before it
RecordUnsaved(st, recorded) ==
    [recorded EXCEPT !.diskPatterns = st.diskPatterns, !.diskHistory = st.diskHistory]

\* lines 147-181: apply_rename after its preview.  fault names the step the
\* operating system fails: "move" for shutil.move, "record" for the write of
\* record_usage, "none" for neither
ApplyPreviewed(fs, st, file_path, pattern_id, document_type, fault, now, preview) ==
    IF Raised(preview) \/ "error" \in DOMAIN preview
    THEN [fs |-> fs, st |-> st, ret |-> preview]
    ELSE IF PathParent(preview.new_path) \in fs.files
         THEN [fs |-> fs, st |-> st, ret |-> RenameFailure(file_path, "File exists")]
    ELSE IF fault = "move"
         THEN [fs |-> MakeDirs(fs, PathParent(preview.new_path)), st |-> st,
               ret |-> RenameFailure(file_path, "Permission denied")]
    ELSE [fs |-> Move(MakeDirs(fs, PathParent(preview.new_path)), file_path,
                      preview.new_path),
          st |-> IF pattern_id = "" THEN st
                 ELSE IF fault = "record"
                      THEN RecordUnsaved(st,
                               record_usage(st, pattern_id,
                                            RenameDoc(file_path, document_type),
                                            PathName(preview.new_path), now).st)
                 ELSE record_usage(st, pattern_id, RenameDoc(file_path, document_type),
                                   PathName(preview.new_path), now).st,
          ret |-> IF pattern_id # "" /\ fault = "record"
                  THEN RenameFailure(file_path, "No space left on device")
                  ELSE RenameSuccess(file_path, preview.new_path, preview)]

\* apply_rename
apply_rename(fs, st, file_path, new_name, dest, pattern_id, document_type, fault, now) ==
    ApplyPreviewed(fs, st, file_path, pattern_id, document_type, fault, now,
                   preview_rename(fs, file_path, new_name, dest))

\* result.get("success")
Succeeded(ret) == "success" \in DOMAIN ret /\ ret.success

\* lines 211-219: an entry without file_path or new_name
MissingFields(rename) ==
    [success |-> FALSE, error |-> "Missing file_path or new_name", original |-> rename]

\* rename.get("destination_dir", destination_dir)
EntryDest(rename, call) == IF rename.has_dest THEN rename.destination_dir ELSE call.dest

\* the state a batch starts in
BatchStart(fs, st) ==
    [fs |-> fs, st |-> st, results |-> <<>>, success_count |-> 0, failure_count |-> 0,
     raised |-> ""]

\* lines 224-231: the entry of a dry run, after its preview
BatchPreviewed(acc, preview) ==
    IF Raised(preview) THEN [acc EXCEPT !.raised = preview.raised]
    ELSE [acc EXCEPT
             !.results = Append(@, [dry_run |-> TRUE] @@ preview),
             !.success_count = IF "error" \in DOMAIN preview THEN @ ELSE @ + 1,
             !.failure_count = IF "error" \in DOMAIN preview THEN @ + 1 ELSE @]

\* lines 232-244: the entry of a real run, after apply_rename
BatchApplied(acc, result) ==
    IF Raised(result.ret) THEN [acc EXCEPT !.raised = result.ret.raised]
    ELSE [acc EXCEPT !.fs = result.fs, !.st = result.st,
                     !.results = Append(@, result.ret),
                     !.success_count = IF Succeeded(result.ret) THEN @ + 1 ELSE @,
                     !.failure_count = IF Succeeded(result.ret) THEN @ ELSE @ + 1]

\* the buggy twin of BatchStep: dry_run is not looked at
BatchStepApplies(acc, rename, call) ==
    IF rename.file_path = "" \/ rename.new_name = ""
    THEN [acc EXCEPT !.results = Append(@, MissingFields(rename)),
                     !.failure_count = @ + 1]
    ELSE BatchApplied(acc, apply_rename(acc.fs, acc.st, rename.file_path,
                                        rename.new_name, EntryDest(rename, call),
                                        call.pattern_id, call.document_type, "none",
                                        call.now))

\* lines 207-244: one turn of the loop of apply_batch_rename
BatchStep(acc, rename, call) ==
    IF rename.file_path = "" \/ rename.new_name = ""
    THEN [acc EXCEPT !.results = Append(@, MissingFields(rename)),
                     !.failure_count = @ + 1]
    ELSE IF call.dry_run
         THEN BatchPreviewed(acc, preview_rename(acc.fs, rename.file_path,
                                                 rename.new_name, EntryDest(rename, call)))
    ELSE BatchApplied(acc, apply_rename(acc.fs, acc.st, rename.file_path,
                                        rename.new_name, EntryDest(rename, call),
                                        call.pattern_id, call.document_type, "none",
                                        call.now))

\* the loop of apply_batch_rename; an exception ends it
RECURSIVE BatchLoop(_, _, _)
BatchLoop(acc, renames, call) ==
    IF renames = <<>> \/ acc.raised # "" THEN acc
    ELSE BatchLoop(BatchStep(acc, Head(renames), call), Tail(renames), call)

\* lines 246-252: what apply_batch_rename returns
BatchResult(renames, call, end) ==
    [fs |-> end.fs, st |-> end.st,
     ret |-> IF end.raised # "" THEN Raise(end.raised)
             ELSE [total |-> Len(renames),
                   success_count |-> end.success_count,
                   failure_count |-> end.failure_count,
                   dry_run |-> call.dry_run,
                   results |-> end.results]]

\* apply_batch_rename; call holds dest, pattern_id, document_type, dry_run and now
apply_batch_rename(fs, st, renames, call) ==
    BatchResult(renames, call, BatchLoop(BatchStart(fs, st), renames, call))

\* the filesystem the variables hold
Fs == [files |-> files, dirs |-> dirs]

(***************************************************************************)
(* SpecUnique: one call of get_unique_path, a turn of its loop at a time,  *)
(* on a directory that holds some of the numbered names.                   *)
(***************************************************************************)

\* the numbered names a small directory may hold are those up to this counter
MaxTaken == 3

\* the paths get_unique_path is called with: with a suffix, without one, with two
UniquePaths == {"/in/Invoice.pdf", "/in/notes", "/in/a.tar.gz"}

\* the sets of counters whose numbered names exist: the small ones, and the ones
\* that hold all the counters up to the safety limit, or all but one
SmallTakenSets == SUBSET (1..MaxTaken)
LargeTakenSets == {1..SafetyLimit, 1..(SafetyLimit - 1), (1..SafetyLimit) \ {2}}

\* a directory /in that holds some of the paths and, of those, these numbered names
UniqueListing(present, taken) ==
    present \cup {Numbered(p, n) : p \in present, n \in taken}

InitUnique ==
    /\ StoreIdle /\ last = NoCall
    /\ sIn = "" /\ sDoc = NoDoc /\ sOut = NoResult
    /\ dirs = {"/", "/in"}
    /\ \/ \E present \in {{}, UniquePaths}, taken \in SmallTakenSets :
              files = UniqueListing(present, taken)
       \/ \E taken \in LargeTakenSets :
              files = UniqueListing({"/in/Invoice.pdf"}, taken)
    /\ loop = NoLoop

\* lines 54-61: the call, up to the loop
UniqueCall ==
    /\ loop.pc = "idle"
    /\ \E p \in UniquePaths :
           loop' = IF ~Exists(Fs, p)
                   THEN [pc |-> "returned", path |-> p, counter |-> 0, tried |-> <<>>,
                         result |-> p]
                   ELSE [pc |-> "loop", path |-> p, counter |-> 1, tried |-> <<>>,
                         result |-> ""]
    /\ UNCHANGED <<storeVars, fsVars, last, pureVars>>

\* the buggy twin of UniqueStep: counter += 2
UniqueStepSkips ==
    /\ loop.pc = "loop"
    /\ loop' = IF ~Exists(Fs, Numbered(loop.path, loop.counter))
               THEN [loop EXCEPT !.pc = "returned",
                                 !.tried = Append(@, loop.counter),
                                 !.result = Numbered(loop.path, loop.counter)]
               ELSE IF loop.counter + 2 > SafetyLimit
                    THEN [loop EXCEPT !.pc = "raised",
                                      !.tried = Append(@, loop.counter),
                                      !.counter = @ + 2]
               ELSE [loop EXCEPT !.tried = Append(@, loop.counter), !.counter = @ + 2]
    /\ UNCHANGED <<storeVars, fsVars, last, pureVars>>

\* lines 62-68: one turn of the loop
UniqueStep ==
    /\ loop.pc = "loop"
    /\ loop' = IF ~Exists(Fs, Numbered(loop.path, loop.counter))
               THEN [loop EXCEPT !.pc = "returned",
                                 !.tried = Append(@, loop.counter),
                                 !.result = Numbered(loop.path, loop.counter)]
               ELSE IF loop.counter + 1 > SafetyLimit
                    THEN [loop EXCEPT !.pc = "raised",
                                      !.tried = Append(@, loop.counter),
                                      !.counter = @ + 1]
               ELSE [loop EXCEPT !.tried = Append(@, loop.counter), !.counter = @ + 1]
    /\ UNCHANGED <<storeVars, fsVars, last, pureVars>>

NextUnique == UniqueCall \/ UniqueStep

SpecUnique == InitUnique /\ [][NextUnique]_vars

\* C8: get_unique_path(p) returns p when p does not exist; when p exists it returns
\* "<stem> (N)<ext>" in p's directory for the smallest N in 1..1000 whose path does
\* not exist, trying N = 1, 2, ... in increasing order, each once; the path it
\* returns does not exist; when all of 1..1000 exist it raises and returns nothing
C8_UniquePath ==
    /\ loop.pc # "idle" =>
           /\ \A i \in 1..Len(loop.tried) : loop.tried[i] = i
           /\ Len(loop.tried) <= SafetyLimit
    /\ loop.pc = "returned" =>
           /\ ~Exists(Fs, loop.result)
           /\ get_unique_path(Fs, loop.path) = [raised |-> "", path |-> loop.result]
           /\ IF ~Exists(Fs, loop.path)
              THEN loop.result = loop.path /\ loop.tried = <<>>
              ELSE /\ loop.tried # <<>>
                   /\ LET n == loop.tried[Len(loop.tried)]
                      IN  /\ loop.result =
                                 PathParent(loop.path) \o "/" \o PathStem(loop.path)
                                     \o " (" \o ToString(n) \o ")" \o PathSuffix(loop.path)
                          /\ \A m \in 1..(n - 1) : Exists(Fs, Numbered(loop.path, m))
    /\ loop.pc = "raised" =>
           /\ Exists(Fs, loop.path)
           /\ \A n \in 1..SafetyLimit : Exists(Fs, Numbered(loop.path, n))
           /\ get_unique_path(Fs, loop.path).raised = "ValueError"
    /\ (/\ loop.pc = "returned"
        /\ Exists(Fs, loop.path))
           => \E n \in 1..SafetyLimit : ~Exists(Fs, Numbered(loop.path, n))

\* the loop went past the numbered names that exist and returned the next one
C8_Witness ==
    /\ loop.pc = "returned"
    /\ loop.path = "/in/a.tar.gz"
    /\ loop.result = "/in/a.tar (3).gz"
    /\ loop.tried = <<1, 2, 3>>
    /\ "/in/a.tar (2).gz" \in files

(***************************************************************************)
(* SpecRename: one call of the rename executor, on a filesystem and a      *)
(* store that earlier calls left.                                          *)
(***************************************************************************)

\* the most entries of a batch
MaxBatch == 2

\* the directories of the filesystem
RenameDirs == {"/", "/in", "/out"}

\* the files of the filesystem: two scans and a note to rename, next to an
\* Invoice.pdf alone, with numbered names, or with every numbered name
RenameListings ==
    LET scans == {"/in/scan0001.pdf", "/in/scan0002.pdf", "/in/notes", "/in/Invoice.pdf"}
    IN  {scans,
         scans \cup {"/in/Invoice (1).pdf", "/out/Invoice.pdf"},
         scans \cup {Numbered("/in/Invoice.pdf", n) : n \in 1..SafetyLimit}}

\* the stores: just made, and after a use of tax_default was recorded
RenameStores ==
    {load(NoFile, NoFile, 0),
     record_usage(load(NoFile, NoFile, 0), "tax_default",
                  RenameDoc("/in/scan0000.pdf", "tax_document"),
                  "2023 - Acme Bank.pdf", 0).st}

\* the arguments of the calls
RenamePaths == {"/in/scan0001.pdf", "/in/notes", "/in/missing.pdf"}
RenameNames == {"Invoice", "scan0001", "Q1: Invoice"}
RenameDests ==
    {NoDest, [given |-> TRUE, dir |-> "/out"], [given |-> TRUE, dir |-> "/nodir"],
     [given |-> TRUE, dir |-> "/in/Invoice.pdf"]}
RenameFaults == {"none", "move", "record"}

\* the entries of a batch: two that ask for the same name, one without file_path,
\* one with a destination of its own, one whose file is missing
RenameEntries ==
    {[file_path |-> "/in/scan0001.pdf", new_name |-> "Invoice", has_dest |-> FALSE,
      destination_dir |-> NoDest],
     [file_path |-> "/in/scan0002.pdf", new_name |-> "Invoice", has_dest |-> FALSE,
      destination_dir |-> NoDest],
     [file_path |-> "", new_name |-> "Invoice", has_dest |-> FALSE,
      destination_dir |-> NoDest],
     [file_path |-> "/in/scan0001.pdf", new_name |-> "Invoice", has_dest |-> TRUE,
      destination_dir |-> [given |-> TRUE, dir |-> "/out"]],
     [file_path |-> "/in/missing.pdf", new_name |-> "Invoice", has_dest |-> FALSE,
      destination_dir |-> NoDest]}

\* the batches of at most MaxBatch entries
RenameBatches ==
    UNION {[1..n -> RenameEntries] : n \in 0..MaxBatch}

InitRename ==
    /\ \E st \in RenameStores :
           /\ patterns = st.patterns /\ history = st.history
           /\ diskPatterns = st.diskPatterns /\ diskHistory = st.diskHistory
    /\ clock = 1 /\ nextUid = 0
    /\ dirs = RenameDirs
    /\ files \in RenameListings
    /\ loop = NoLoop
    /\ last = NoCall
    /\ sIn = "" /\ sDoc = NoDoc /\ sOut = NoResult

\* the call returns: the filesystem and the store it leaves, and what it gave
Returned(call, r) ==
    /\ files' = r.fs.files
    /\ dirs' = r.fs.dirs
    /\ SetStore(r.st)
    /\ last' = [ret |-> r.ret, pre |-> [fs |-> Fs, st |-> Store]] @@ call

PreviewRename ==
    /\ last = NoCall
    /\ \E file_path \in RenamePaths, new_name \in RenameNames, dest \in RenameDests :
           last' = [op |-> "preview_rename", file_path |-> file_path,
                    new_name |-> new_name, dest |-> dest,
                    ret |-> preview_rename(Fs, file_path, new_name, dest),
                    pre |-> [fs |-> Fs, st |-> Store]]
    /\ UNCHANGED <<storeVars, fsVars, loop, pureVars>>

ApplyRename ==
    /\ last = NoCall
    /\ \E file_path \in RenamePaths, new_name \in RenameNames, dest \in RenameDests,
          pattern_id \in {"", "tax_default"}, fault \in RenameFaults :
           /\ fault = "record" => pattern_id # ""
           /\ Returned([op |-> "apply_rename", file_path |-> file_path,
                        new_name |-> new_name, dest |-> dest,
                        pattern_id |-> pattern_id, fault |-> fault],
                       apply_rename(Fs, Store, file_path, new_name, dest, pattern_id,
                                    "Tax Document", fault, clock))
    /\ clock' = clock + 1
    /\ UNCHANGED <<nextUid, loop, pureVars>>

ApplyBatchRename ==
    /\ last = NoCall
    /\ \E renames \in RenameBatches, dest \in {NoDest, [given |-> TRUE, dir |-> "/out"]},
          dry_run \in BOOLEAN :
           Returned([op |-> "apply_batch_rename", renames |-> renames, dest |-> dest,
                     pattern_id |-> "tax_default", dry_run |-> dry_run],
                    apply_batch_rename(Fs, Store, renames,
                                       [dest |-> dest, pattern_id |-> "tax_default",
                                        document_type |-> "Tax Document",
                                        dry_run |-> dry_run, now |-> clock]))
    /\ clock' = clock + 1
    /\ UNCHANGED <<nextUid, loop, pureVars>>

NextRename == PreviewRename \/ ApplyRename \/ ApplyBatchRename

SpecRename == InitRename /\ [][NextRename]_vars

\* C3: apply_batch_rename with dry_run=true leaves the filesystem, every rule's
\* use_count and last_used, the history and the persisted files as they were, and
\* every preview result it produces carries dry_run=true
C3_DryRunChangesNothing ==
    (last.op = "apply_batch_rename" /\ last.dry_run) =>
        /\ files = last.pre.fs.files
        /\ dirs = last.pre.fs.dirs
        /\ Len(patterns) = Len(last.pre.st.patterns)
        /\ \A k \in 1..Len(patterns) :
               /\ patterns[k].use_count = last.pre.st.patterns[k].use_count
               /\ patterns[k].last_used = last.pre.st.patterns[k].last_used
        /\ history = last.pre.st.history
        /\ diskPatterns = last.pre.st.diskPatterns
        /\ diskHistory = last.pre.st.diskHistory
        /\ ~Raised(last.ret) =>
               /\ last.ret.dry_run = TRUE
               /\ \A k \in 1..Len(last.ret.results) :
                      "original" \notin DOMAIN last.ret.results[k] =>
                          /\ "dry_run" \in DOMAIN last.ret.results[k]
                          /\ last.ret.results[k].dry_run = TRUE

\* a dry run of two renames to the same name, on a store that has recorded a use
C3_Witness ==
    /\ last.op = "apply_batch_rename"
    /\ last.dry_run
    /\ ~Raised(last.ret)
    /\ Len(last.ret.results) = 2
    /\ last.ret.success_count = 2
    /\ last.ret.results[1].new_path = "/in/Invoice (1).pdf"
    /\ last.ret.results[2].original_path = "/in/scan0002.pdf"
    /\ last.pre.st.history # <<>>
    /\ "/in/scan0001.pdf" \in files

\* the path a preview asks for before conflicts are looked at
CandidatePath(file_path, new_name, dest) ==
    (IF dest.given /\ dest.dir # "" THEN dest.dir ELSE PathParent(file_path))
        \o "/" \o sanitize_filename(new_name) \o PathSuffix(file_path)

\* whether the preview reports a conflict just when the candidate exists, with the
\* first free numbered path then and the candidate otherwise
ConflictReported(ret, candidate) ==
    /\ ret.has_conflict = Exists(Fs, candidate)
    /\ ~Exists(Fs, ret.new_path)
    /\ ~Exists(Fs, candidate) => ret.new_path = candidate
    /\ Exists(Fs, candidate) =>
           \E n \in 1..SafetyLimit :
               /\ ret.new_path = PathParent(candidate) \o "/" \o PathStem(candidate)
                                     \o " (" \o ToString(n) \o ")" \o PathSuffix(candidate)
               /\ \A m \in 1..(n - 1) : Exists(Fs, Numbered(candidate, m))

\* C9: a preview of an existing source has has_conflict = true exactly when the
\* candidate path (destination or source directory / sanitized new name + the
\* source's extension) exists, and then new_path is the first numbered path that
\* does not exist; when the candidate does not exist new_path is the candidate;
\* preview_rename never changes the filesystem
C9_PreviewConflict ==
    last.op = "preview_rename" =>
        /\ files = last.pre.fs.files
        /\ dirs = last.pre.fs.dirs
        /\ "has_conflict" \in DOMAIN last.ret =>
               /\ Exists(Fs, last.file_path)
               /\ ConflictReported(last.ret,
                      CandidatePath(last.file_path, last.new_name, last.dest))
        /\ (/\ Exists(Fs, last.file_path)
            /\ ~Raised(last.ret)
            /\ last.dest.given => Exists(Fs, last.dest.dir))
               => "has_conflict" \in DOMAIN last.ret

\* scan0001.pdf previewed as Invoice next to an existing Invoice.pdf
C9_Witness ==
    /\ last.op = "preview_rename"
    /\ last.file_path = "/in/scan0001.pdf"
    /\ last.new_name = "Invoice"
    /\ last.dest = NoDest
    /\ "/in/Invoice.pdf" \in files
    /\ "has_conflict" \in DOMAIN last.ret
    /\ last.ret.has_conflict = TRUE
    /\ last.ret.new_path = "/in/Invoice (1).pdf"

\* whether a call returned a failure: success = false, or an error
Failed(ret) == ~Raised(ret) /\ ("error" \in DOMAIN ret \/ ~Succeeded(ret))

\* C16: whenever apply_rename returns a failure result, the source file is still
\* at its original path and no file is at a path where none was before the call,
\* also when the failure comes after the move, while the usage is recorded.
C16_FailureLeavesSource ==
    (last.op = "apply_rename" /\ Failed(last.ret)) =>
        /\ last.file_path \in last.pre.fs.files => last.file_path \in files
        /\ files \subseteq last.pre.fs.files
        /\ dirs = last.pre.fs.dirs

\* whether the k-th result of a batch is the result of its k-th entry
ResultOfEntry(result, rename) ==
    IF rename.file_path = "" \/ rename.new_name = ""
    THEN ~Succeeded(result) /\ result.original = rename
    ELSE \/ "original_path" \in DOMAIN result /\ result.original_path = rename.file_path
         \/ "error" \in DOMAIN result /\ "original_path" \notin DOMAIN result

\* how many results of a batch are successes: a preview without error in a dry
\* run, success = true in a real run
Successes(ret) ==
    Cardinality({k \in 1..Len(ret.results) :
                    IF ret.dry_run /\ "dry_run" \in DOMAIN ret.results[k]
                    THEN "error" \notin DOMAIN ret.results[k]
                    ELSE Succeeded(ret.results[k])})

\* C17: apply_batch_rename processes every entry on its own: it returns a summary
\* whose results hold one result per entry, in the order of the entries, with
\* total = number of entries = success_count + failure_count; an entry without
\* file_path or new_name is a failed result; the failure of an entry (missing
\* field, missing file, missing destination, failed move, no unique name left)
\* does not keep the later entries from being processed; the destination_dir of
\* an entry is used in place of the shared one.
C17_BatchIndependent ==
    last.op = "apply_batch_rename" =>
        /\ ~Raised(last.ret)
        /\ last.ret.total = Len(last.renames)
        /\ Len(last.ret.results) = Len(last.renames)
        /\ last.ret.success_count + last.ret.failure_count = last.ret.total
        /\ last.ret.success_count = Successes(last.ret)
        /\ \A k \in 1..Len(last.renames) :
               /\ ResultOfEntry(last.ret.results[k], last.renames[k])
               /\ ("new_path" \in DOMAIN last.ret.results[k] /\ last.renames[k].has_dest)
                      => PathParent(last.ret.results[k].new_path)
                             = last.renames[k].destination_dir.dir

\* whether the path a call asks for and its 1000 numbered variants all exist
Exhausted(fs, candidate) ==
    /\ Exists(fs, candidate)
    /\ \A n \in 1..SafetyLimit : Exists(fs, Numbered(candidate, n))

\* C18: when the candidate and all its 1000 numbered variants exist, preview_rename
\* and apply_rename return an error value ({error: ...} or {success: false,
\* error: ...}) and raise no exception, and the filesystem and the store are
\* left unchanged.
C18_ExhaustionReturnsError ==
    (/\ last.op \in {"preview_rename", "apply_rename"}
     /\ Exists(last.pre.fs, last.file_path)
     /\ last.dest.given => Exists(last.pre.fs, last.dest.dir)
     /\ Exhausted(last.pre.fs, CandidatePath(last.file_path, last.new_name, last.dest)))
        => /\ ~Raised(last.ret)
           /\ "error" \in DOMAIN last.ret
           /\ Fs = last.pre.fs
           /\ Store = last.pre.st

(***************************************************************************)
(* SpecLoad: PatternStore(data_dir) on a data directory whose two files    *)
(* hold any content: none, a text that is not JSON, a JSON list, or a JSON *)
(* object whose pattern entries may lack fields or carry unknown ones.     *)
(***************************************************************************)

\* the fields of the PatternRule dataclass
RuleFields ==
    {"id", "document_type", "pattern", "name", "description", "use_count",
     "last_used", "created_at", "match_keywords", "match_institutions",
     "priority", "is_custom"}

\* the fields without a default that from_dict does not supply itself
RequiredFields == {"id", "pattern"}

\* cls(**data) raises TypeError: an unexpected keyword, or a missing argument
FromDictRaises(data) ==
    \/ ~(DOMAIN data \subseteq RuleFields)
    \/ ~(RequiredFields \subseteq DOMAIN data)

\* the value a field absent from the dict gets: data.get("document_type",
\* "general") and the defaults of the dataclass
FieldDefault(f, now) ==
    CASE f = "document_type" -> "general"
      [] f \in {"name", "description"} -> ""
      [] f \in {"use_count", "priority"} -> 0
      [] f = "last_used" -> NoTime
      [] f = "created_at" -> now
      [] f \in {"match_keywords", "match_institutions"} -> <<>>
      [] f = "is_custom" -> FALSE

\* the dict with every absent field at its default
Completed(data, now) ==
    [f \in RuleFields |-> IF f \in DOMAIN data THEN data[f] ELSE FieldDefault(f, now)]

\* patterns.json with every entry completed
CompletedFile(file, now) ==
    [file EXCEPT !.data = ListOf([k \in 1..Len(file.data) |-> Completed(file.data[k], now)])]

\* lines 40-48: the exception that leaves the try block reading patterns.json, ""
\* for none: JSONDecodeError is caught, AttributeError (data.get on a list) and
\* TypeError (from_dict) are not
PatternsFileRaises(file) ==
    IF ~Readable(file) THEN ""
    ELSE IF ~file.object THEN "AttributeError"
    ELSE IF \E k \in 1..Len(file.data) : FromDictRaises(file.data[k]) THEN "TypeError"
    ELSE ""

\* lines 51-56: the same for history.json, whose entries are not looked at
HistoryFileRaises(file) ==
    IF Readable(file) /\ ~file.object THEN "AttributeError" ELSE ""

\* PatternStore(data_dir): the store constructed, or the exception raised
PatternStoreInit(fileP, fileH, now) ==
    IF PatternsFileRaises(fileP) # "" THEN Raise(PatternsFileRaises(fileP))
    ELSE IF HistoryFileRaises(fileH) # "" THEN Raise(HistoryFileRaises(fileH))
    ELSE [store |-> [load(CompletedFile(fileP, now), fileH, now)
                        EXCEPT !.diskPatterns = fileP]]

\* a file holding a JSON object with these entries under its key
ObjectFile(entries) ==
    [exists |-> TRUE, torn |-> FALSE, object |-> TRUE, data |-> entries]

\* a file holding a JSON list
ListFile == [exists |-> TRUE, torn |-> FALSE, object |-> FALSE, data |-> <<>>]

\* a rule dict as _save writes it
SavedEntry ==
    to_dict([DefaultRule(DEFAULT_PATTERNS[1], 0) EXCEPT
                !.id = CustomId(1), !.is_custom = TRUE, !.use_count = 2])

\* pattern entries: saved ones, and ones with missing or unknown fields
LoadEntries ==
    <<SavedEntry,
      [SavedEntry EXCEPT !.id = DEFAULT_PATTERNS[1].id],
      [id |-> CustomId(2), document_type |-> "receipt", pattern |-> "{Merchant}"],
      [id |-> CustomId(2), pattern |-> "{Merchant}"],
      [document_type |-> "receipt", pattern |-> "{Merchant}"],
      [id |-> CustomId(2), document_type |-> "receipt"],
      [id |-> CustomId(2), document_type |-> "receipt", pattern |-> "{Merchant}",
       colour |-> "red"]>>

LoadPatternFiles ==
    <<NoFile, TornFile, ListFile, ObjectFile(<<>>)>>
        \o ListOf([k \in 1..Len(LoadEntries) |-> ObjectFile(<<LoadEntries[k]>>)])
        \o ListOf([k \in 1..Len(LoadEntries) |->
                      ObjectFile(<<SavedEntry, LoadEntries[k]>>)])

LoadHistoryFiles ==
    <<NoFile, TornFile, ListFile, ObjectFile(<<>>),
      ObjectFile(<<HistoryEntry(CustomId(1), NoDoc, "a.pdf", 0)>>)>>

InitLoad ==
    /\ patterns = <<>> /\ history = <<>>
    /\ \E i \in 1..Len(LoadPatternFiles) : diskPatterns = LoadPatternFiles[i]
    /\ \E i \in 1..Len(LoadHistoryFiles) : diskHistory = LoadHistoryFiles[i]
    /\ FsIdle
    /\ clock = 1
    /\ nextUid = 0
    /\ last = NoCall
    /\ sIn = "" /\ sDoc = NoDoc /\ sOut = NoResult

\* the call returns r: the attributes of the store are those of r, and an
\* exception leaves no store
Constructed(r) ==
    /\ patterns' = IF Raised(r) THEN patterns ELSE r.store.patterns
    /\ history' = IF Raised(r) THEN history ELSE r.store.history
    /\ last' = [op |-> "construct", ret |-> r]

Construct ==
    /\ last = NoCall
    /\ Constructed(PatternStoreInit(diskPatterns, diskHistory, clock))
    /\ clock' = clock + 1
    /\ UNCHANGED <<diskPatterns, diskHistory, fsVars, loop, nextUid, pureVars>>

NextLoad == Construct

SpecLoad == InitLoad /\ [][NextLoad]_vars

\* the file holds a text that is not JSON, or a JSON list
Malformed(file) == file.exists /\ (file.torn \/ ~file.object)

\* patterns.json holds what _save never writes: it is malformed, or one of its
\* entries has an unknown field or lacks a field it needs
Unexpected(file) ==
    \/ Malformed(file)
    \/ file.exists /\ \E k \in 1..Len(file.data) : FromDictRaises(file.data[k])

\* C21: constructing the store never fails because of what patterns.json or
\* history.json holds: an artifact that is malformed or of an unexpected shape
\* counts as empty, so the rules are those of the default catalog and the
\* history is empty.
C21_LoadNeverFails ==
    last.op = "construct" =>
        /\ ~Raised(last.ret)
        /\ Unexpected(diskPatterns) => patterns = DefaultRules(clock - 1)
        /\ Malformed(diskHistory) => history = <<>>

(***************************************************************************)
(* SpecHistory: the history grows by record_usage and is read by           *)
(* get_history.                                                            *)
(***************************************************************************)

\* limit: int = 50, line 277
DefaultLimit == 50

\* seq[::-1]
Reversed(seq) == ListOf([i \in 1..Len(seq) |-> seq[Len(seq) - i + 1]])

\* PatternStore.get_history
get_history(st, limit) == Reversed(LastN(st.history, limit))

\* the limits get_history is called with: none, fewer than, as many as and more
\* than the entries of the history, and the default
CallLimits == 0..(MaxCalls + 1) \cup {DefaultLimit}

GetHistory ==
    /\ \E limit \in CallLimits :
           last' = [op |-> "get_history", limit |-> limit,
                    ret |-> get_history(Store, limit)]
    /\ UNCHANGED <<storeVars, fsVars, loop, pureVars>>

NextHistory == RecordUsage \/ GetHistory

SpecHistory == Init /\ [][NextHistory]_vars

\* the smaller of two numbers
Min(a, b) == IF a <= b THEN a ELSE b

\* C22: get_history(N) returns, for every N >= 0 and a history of h entries,
\* min(N, h) entries: the N entries appended last, the last one first; N = 0
\* gives the empty list.
C22_HistoryMostRecent ==
    last.op = "get_history" =>
        /\ Len(last.ret) = Min(last.limit, Len(history))
        /\ \A i \in 1..Len(last.ret) : last.ret[i] = history[Len(history) - i + 1]

\* the arguments of update_pattern that set a field of the rule
UpdateFields ==
    {"pattern", "name", "description", "match_keywords", "match_institutions", "priority"}

\* C23: update_pattern(id, fields) changes the supplied fields of the rule with
\* that id and nothing else: the rule's other fields, the other rules and the
\* history stay as they were; with an id no rule has it returns not-found and
\* changes nothing in memory or on disk.
C23_UpdateOnlySupplied ==
    last.op = "update_pattern" =>
        IF HasId(last.pre.patterns, last.id)
        THEN /\ Len(patterns) = Len(last.pre.patterns)
             /\ \A k \in 1..Len(patterns) :
                    IF last.pre.patterns[k].id = last.id
                    THEN /\ \A f \in RuleFields :
                                patterns[k][f] =
                                    IF f \in last.upd.supplied
                                    THEN last.upd[f]
                                    ELSE last.pre.patterns[k][f]
                         /\ last.ret = patterns[k]
                    ELSE patterns[k] = last.pre.patterns[k]
             /\ last.upd.supplied \subseteq UpdateFields
             /\ history = last.pre.history
        ELSE /\ last.ret = NoRule
             /\ Store = last.pre

\* update_pattern has changed the priority and the institutions of a rule of a
\* store that holds a history entry, and left the rule's template alone
C23_Witness ==
    /\ last.op = "update_pattern"
    /\ HasId(last.pre.patterns, last.id)
    /\ last.upd.supplied = {"priority", "match_institutions"}
    /\ last.ret.priority = 20
    /\ last.ret.pattern # last.upd.pattern
    /\ patterns # last.pre.patterns
    /\ history # <<>>

\* C24: the year field sets Date:YYYY only where date parsing has not: with a
\* date that parses as YYYY-MM-DD and a year field, Date:YYYY is the year of the
\* date; it is the year field only when the date is absent or does not parse.
C24_YearKeepsParsedDate ==
    (sOut.done /\ sDoc.year # "") =>
        TokenValue(get_token_values(sDoc), "Date:YYYY") =
            IF sDoc.date # "" /\ strptime(sDoc.date).ok
            THEN strptime(sDoc.date).Y
            ELSE sDoc.year

\* every rule has the use_count it had before the call, but the rule with this
\* id, whose use_count is higher by n
UsesRaised(id, n) ==
    /\ Len(patterns) = Len(last.pre.st.patterns)
    /\ \A k \in 1..Len(patterns) :
           patterns[k].use_count =
               last.pre.st.patterns[k].use_count
                   + (IF patterns[k].id = id THEN n ELSE 0)

\* the history is the one before the call and n entries more, of this rule id
HistoryGrown(id, n) ==
    /\ Len(history) = Len(last.pre.st.history) + n
    /\ SubSeq(history, 1, Len(last.pre.st.history)) = last.pre.st.history
    /\ \A k \in (Len(last.pre.st.history) + 1)..Len(history) : history[k].pattern_id = id

\* C25: apply_rename records usage once per successful rename and only then: a
\* call that returns success with a rule id appends one history entry whose
\* new_name is the final filename and raises that rule's use_count by 1; any
\* other call (no rule id, a failed preview, a failed move, any failure result)
\* appends nothing and changes no use_count.  A real batch with a rule id and k
\* successful entries raises the rule's use_count by k.
C25_UsageOncePerSuccess ==
    /\ last.op = "apply_rename" =>
           IF Succeeded(last.ret) /\ last.pattern_id # ""
           THEN /\ HistoryGrown(last.pattern_id, 1)
                /\ history[Len(history)].new_name = last.ret.new_name
                /\ last.ret.new_path \in files
                /\ PathName(last.ret.new_path) = last.ret.new_name
                /\ UsesRaised(last.pattern_id, 1)
           ELSE /\ history = last.pre.st.history
                /\ UsesRaised(last.pattern_id, 0)
    /\ (last.op = "apply_batch_rename" /\ ~last.dry_run /\ ~Raised(last.ret)) =>
           /\ HistoryGrown(last.pattern_id, last.ret.success_count)
           /\ UsesRaised(last.pattern_id, last.ret.success_count)

HoldsDefault(rules, entry) ==
    \E k \in 1..Len(rules) :
        /\ rules[k].id = entry.id
        /\ ~rules[k].is_custom
        /\ rules[k].document_type = entry.document_type

\* the documents the calls are made with, as documents of this type
DocsOfType(t) == {[d EXCEPT !.document_type = t] : d \in CallDocs}

\* C27: after any sequence of add_pattern, update_pattern, delete_pattern,
\* record_usage and learn_from_batch calls on a seeded store, every identifier
\* of the default catalog is still a rule that is not custom and has its
\* original document type, so every DocumentType has a rule and
\* get_best_pattern finds a rule for every document.
C27_DefaultsStay ==
    /\ \A i \in 1..Len(DEFAULT_PATTERNS) : HoldsDefault(patterns, DEFAULT_PATTERNS[i])
    /\ \A t \in DocumentType :
           /\ \E k \in 1..Len(patterns) : patterns[k].document_type = t
           /\ \A d \in DocsOfType(t) : get_best_pattern(patterns, d) # NoRule

\* delete_pattern was asked to delete a default rule of a store that holds a
\* custom rule and a history entry, and refused
C27_Witness ==
    /\ last.op = "delete_pattern"
    /\ last.id = "tax_default"
    /\ last.ret = FALSE
    /\ Len(patterns) > Len(DEFAULT_PATTERNS)
    /\ history # <<>>

\* the files the last call was asked to rename
Sources ==
    IF last.op = "apply_rename" THEN {last.file_path}
    ELSE {last.renames[k].file_path : k \in 1..Len(last.renames)}

\* the positions of the results of a batch that are successes
SuccessAt(ret) == {k \in 1..Len(ret.results) : Succeeded(ret.results[k])}

\* C28: apply_rename and apply_batch_rename never overwrite or destroy a file:
\* the target of a move does not exist when the move is made, every file there
\* before the call is there after it, at its path or, if it was a source, at
\* its new path, and no two successful entries of a real batch end at the same
\* new_path.
C28_NoFileDestroyed ==
    last.op \in {"apply_rename", "apply_batch_rename"} =>
        /\ Cardinality(files) = Cardinality(last.pre.fs.files)
        /\ \A p \in last.pre.fs.files : p \in files \/ p \in Sources
        /\ (last.op = "apply_rename" /\ Succeeded(last.ret)) =>
               /\ ~Exists(last.pre.fs, last.ret.new_path)
               /\ files = (last.pre.fs.files \ {last.file_path}) \cup {last.ret.new_path}
        /\ (last.op = "apply_batch_rename" /\ ~last.dry_run /\ ~Raised(last.ret)) =>
               /\ \A j, k \in SuccessAt(last.ret) :
                      j # k => last.ret.results[j].new_path # last.ret.results[k].new_path
               /\ \A k \in SuccessAt(last.ret) :
                      /\ last.ret.results[k].new_path \in files
                      /\ last.ret.results[k].original_path \notin files

\* a real batch renamed two scans to Invoice next to Invoice.pdf and
\* Invoice (1).pdf: they ended at (2) and (3), and the two older files are there
C28_Witness ==
    /\ last.op = "apply_batch_rename"
    /\ ~last.dry_run
    /\ ~Raised(last.ret)
    /\ last.ret.success_count = 2
    /\ last.ret.results[1].new_path = "/in/Invoice (2).pdf"
    /\ last.ret.results[2].new_path = "/in/Invoice (3).pdf"
    /\ {"/in/Invoice.pdf", "/in/Invoice (1).pdf"} \subseteq files
    /\ "/in/scan0001.pdf" \notin files

\* the dry run of the batch the last call applied, from the state before the call
DryRunOf(call) ==
    apply_batch_rename(call.pre.fs, call.pre.st, call.renames,
                       [dest |-> call.dest, pattern_id |-> call.pattern_id,
                        document_type |-> "Tax Document", dry_run |-> TRUE,
                        now |-> clock - 1]).ret

\* the k-th entry has in the dry run the new_path it has in the real run, or none
\* in either
SamePathAt(dry, real, k) ==
    /\ "new_path" \in DOMAIN dry.results[k] <=> "new_path" \in DOMAIN real.results[k]
    /\ "new_path" \in DOMAIN dry.results[k] =>
           dry.results[k].new_path = real.results[k].new_path

\* the dry run and the real run agree on the new_path of every entry
SamePaths(dry, real) ==
    /\ ~Raised(dry)
    /\ Len(dry.results) = Len(real.results)
    /\ \A k \in 1..Len(real.results) : SamePathAt(dry, real, k)

\* C29: a dry run is a faithful preview of the real run: from the same
\* filesystem, every entry of a batch has with dry_run=true the new_path it
\* gets with dry_run=false, also when two entries ask for the same name in the
\* same directory.
C29_DryRunFaithful ==
    (last.op = "apply_batch_rename" /\ ~last.dry_run /\ ~Raised(last.ret)) =>
        SamePaths(DryRunOf(last), last.ret)

\* a name that is safe already: not empty, none of the invalid characters, no
\* whitespace but the space, no whitespace or dot at either end, and no two
\* spaces or two dashes in a row
SafeName(s) ==
    /\ s # ""
    /\ ~HasCharIn(s, InvalidChars \cup {"\t"})
    /\ Head(s) \notin {" ", "."} /\ CharAt(s, Len(s)) \notin {" ", "."}
    /\ ~HasPairIn(s, {" "})
    /\ ~HasPairIn(s, {"-"})

\* C30: sanitize_filename leaves a safe name as it is (so a rendered name with
\* an ISO date, "2024-03-15 - Whole Foods", or "2023 - K-1 - Fidelity" is applied
\* unchanged), and it is idempotent: sanitizing its output gives that output.
C30_SanitizeFixesSafeNames ==
    sOut.done =>
        /\ SafeName(sIn) => sOut.value = sIn
        /\ sanitize_filename(sOut.value) = sOut.value

====
